---------------------------- MODULE QueueProofs -----------------------------
(***************************************************************************)
(* Proof that IInv is an invariant of Queue, of what follows from it, and  *)
(* of what the destructor does, for any sets of threads and values and any *)
(* capacities.                                                             *)
(***************************************************************************)
EXTENDS QueueProducerProofs, QueueDrop

-----------------------------------------------------------------------------
(* The consumers.                                                          *)

\* Producers do not notice a change outside the cells they owe.
LEMMA ProducersUnchanged ==
    ASSUME IInv, UNCHANGED <<producer, buf_capacity>>,
           \A b \in Buffer : \A i \in Owed[b] : cells'[b][i] = cells[b][i]
    PROVE  /\ Owed' = Owed
           /\ \A p \in Producers : ProducerInv(p)'
           /\ DisjointOwed'
<1>1. Owed' = Owed
  BY Zenon, OwedUnchanged
<1>2. DisjointOwed'
  BY DEF IInv, DisjointOwed, Owes, OwedCells, InsertIndex
<1>3. ASSUME NEW p \in Producers PROVE ProducerInv(p)'
  <2>1. ProducerInv(p) /\ TypeOK
    BY Zenon DEF IInv
  <2>2. Owes(p)' <=> Owes(p)
    BY Zenon DEF Owes
  <2>3. OwedCells(p)' = OwedCells(p)
    BY Zenon DEF OwedCells, InsertIndex
  <2>4. Owes(p) => \A i \in OwedCells(p) :
            cells'[producer[p].seen.index][i] = cells[producer[p].seen.index][i]
    <3>1. producer[p].seen.index \in Buffer
      BY Zenon, <2>1 DEF TypeOK, EnqueuingWord
    <3> QED
      BY Zenon, <2>1, <3>1, OwedCellsFacts
  <2> QED
    BY Zenon, <2>1, <2>2, <2>3, <2>4 DEF ProducerInv, Owes
<1> QED
  BY Zenon, <1>1, <1>2, <1>3

\* An idle consumer satisfies its invariant whatever the queue does.
LEMMA IdleConsumerInv ==
    ASSUME NEW c \in Consumers, consumer'[c].pc = "idle"
    PROVE  ConsumerInv(c)'
  BY Zenon DEF ConsumerInv

\* A step of the consumer c that holds the lock, up to what depends on the
\* step: it goes on holding it, or it stores the dequeuing word.
LEMMA HolderStep ==
    ASSUME IInv, NEW c \in Consumers, consumer[c].pc # "idle",
           UNCHANGED <<producer, buf_capacity>>,
           \A b \in Buffer : \A i \in Owed[b] : cells'[b][i] = cells[b][i],
           consumer' = [consumer EXCEPT ![c] = consumer'[c]],
           \/ consumer'[c].pc # "idle" /\ UNCHANGED dequeuing_length
           \/ /\ consumer'[c].pc = "idle"
              /\ dequeuing_length' \in DequeuingWord
              /\ UnlockedInv',
           enqueuing_capacity' \in EnqueuingWord,
           buffers_length' \in [Buffer -> 0..MaxCapacity],
           cells' \in [Buffer -> [Cell -> Element \cup {Uninit}]],
           capacity' \in 0..MaxCapacity,
           consumer'[c] \in ConsumerRecord,
           ConsumerInv(c)', EnqueuingInv', CapacityIsPublished'
    PROVE  IInv'
<1>0. TypeOK
  BY Zenon DEF IInv
<1>1. /\ dequeuing_length = DEQUEUING_LOCKED
      /\ \A d \in Consumers \ {c} : consumer[d].pc = "idle"
  BY Zenon DEF IInv, LockIsExclusive
<1>2. \A d \in Consumers \ {c} : consumer'[d] = consumer[d]
  BY Zenon, <1>0 DEF TypeOK
<1>3. /\ Owed' = Owed
      /\ \A p \in Producers : ProducerInv(p)'
      /\ DisjointOwed'
  BY Zenon, ProducersUnchanged
<1>4. \A d \in Consumers : ConsumerInv(d)'
  BY <1>1, <1>2, IdleConsumerInv
<1>5. TypeOK'
  <2>1. consumer \in [Consumers -> ConsumerRecord]
    BY Zenon, <1>0 DEF TypeOK, ConsumerRecord
  <2>2. consumer' \in [Consumers -> ConsumerRecord]
    BY Zenon, <2>1
  <2>3. dequeuing_length' \in DequeuingWord \cup {DEQUEUING_LOCKED}
    BY Zenon, <1>1
  <2> QED
    BY Zenon, <1>0, <2>2, <2>3 DEF TypeOK, ConsumerRecord
<1>6. \A w \in DequeuingWord : w # DEQUEUING_LOCKED
  BY QueueAssumption DEF DequeuingWord, DEQUEUING_LOCKED, QueueAssumption
<1>7. LockIsExclusive'
  BY <1>1, <1>2, <1>6 DEF LockIsExclusive
<1>8. UnlockedInv'
  BY Zenon, <1>1 DEF UnlockedInv
<1> QED
  BY Zenon, <1>3, <1>4, <1>5, <1>7, <1>8 DEF IInv

\* A step that changes nothing but the state of the holder c.
LEMMA LocalStep ==
    ASSUME IInv, NEW c \in Consumers, consumer[c].pc \notin {"idle", "notify"},
           UNCHANGED <<enqueuing_capacity, dequeuing_length, buffers_length,
                       buffer_vars, capacity, producer>>,
           consumer' = [consumer EXCEPT ![c] = consumer'[c]],
           consumer'[c].pc \notin {"idle", "notify"},
           consumer'[c] \in ConsumerRecord,
           Buf' = Buf /\ Other' = Other => ConsumerInv(c)'
    PROVE  IInv'
<1>0. TypeOK /\ UNCHANGED <<buf_capacity, cells>>
  BY Zenon DEF IInv, buffer_vars
<1>1. Buf' = Buf /\ Other' = Other
  BY Zenon, <1>0, OwedUnchanged DEF Buf, Other
<1>2. \A d \in Consumers \ {c} : consumer'[d] = consumer[d]
  BY Zenon, <1>0 DEF TypeOK
<1>3. EnqueuingInv'
  BY Zenon, <1>0, <1>1 DEF IInv, EnqueuingInv
<1>4. CapacityIsPublished'
  BY Zenon, <1>0, <1>2 DEF IInv, CapacityIsPublished
<1> QED
  BY Zenon, <1>0, <1>1, <1>3, <1>4, HolderStep DEF TypeOK

\* A slice becomes an iterator or an iterator a slice, over the same range.
LEMMA HandleSwitchInv ==
    ASSUME IInv, NEW c \in Consumers, IntoIter(c) \/ IntoSlice(c)
    PROVE  IInv'
<1>1. consumer[c] \in ConsumerRecord /\ ConsumerInv(c)
  BY Zenon, HolderFacts
<1>2. PICK pc \in {"slice", "iter"} :
          consumer' = [consumer EXCEPT ![c] = [@ EXCEPT !.pc = pc]]
  BY Zenon DEF IntoIter, IntoSlice, Goto
<1>3. consumer'[c] = [consumer[c] EXCEPT !.pc = pc]
  BY Zenon, <1>2 DEF IInv, TypeOK
<1>4. /\ consumer'[c] \in ConsumerRecord
      /\ consumer'[c].pc = pc
      /\ consumer'[c].index = consumer[c].index
      /\ consumer'[c].start = consumer[c].start
      /\ consumer'[c].length = consumer[c].length
  BY Zenon, <1>1, <1>3 DEF ConsumerRecord, ConsumerPc
<1>5. consumer[c].pc \in {"slice", "iter"}
  BY Zenon DEF IntoIter, IntoSlice
<1>6. Buf' = Buf /\ Other' = Other => ConsumerInv(c)'
  BY Zenon, <1>1, <1>4, <1>5 DEF ConsumerInv
<1>7. consumer' = [consumer EXCEPT ![c] = consumer'[c]]
  BY Zenon, <1>2, <1>3
<1> QED
  BY Zenon, <1>4, <1>5, <1>6, <1>7, LocalStep DEF IntoIter, IntoSlice

\* try_dequeue_spin: the length covers every reserved cell, or the call gives
\* up with the same length still due.
LEMMA SpinInv ==
    ASSUME IInv, NEW c \in Consumers, TakeSlice(c) \/ GiveUpSpinning(c)
    PROVE  IInv'
<1> DEFINE b == consumer[c].index
           n == consumer[c].length
<1>1. /\ consumer[c] \in ConsumerRecord /\ ConsumerInv(c)
      /\ consumer[c].pc = "spin"
      /\ b \in Buffer /\ n \in Nat
      /\ b = Other
      /\ n > 0 /\ IsDue(Buf[b], n)
      /\ buffers_length[b] \in 0..MaxCapacity /\ MaxCapacity \in Nat
      /\ buf_capacity[b] \in Nat
      /\ Buf[b].owed = Owed[b] /\ Buf[b].acked = buffers_length[b]
      /\ Buf[b].capa = buf_capacity[b]
  BY SMTT(40), HolderFacts
     DEF TakeSlice, GiveUpSpinning, ConsumerInv, ConsumerRecord
<1>2. CASE TakeSlice(c)
  <2>1. consumer'[c] = [consumer[c] EXCEPT !.pc = "slice",
                                           !.start = buffers_length[b] - n]
    BY Zenon, <1>2 DEF IInv, TypeOK, TakeSlice, Goto
  <2>2. buffers_length[b] >= n
    BY Zenon, <1>2 DEF TakeSlice, SpinDone
  <2>3. /\ Settled(Buf[b], buffers_length[b] - n, buffers_length[b])
        /\ buffers_length[b] <= buf_capacity[b]
    <3>1. CASE Reserved(Buf[b], n)
      <4>1. Owed[b] = {} /\ buffers_length[b] = n
        BY <1>1, <2>2, <3>1, OwedFinite DEF Reserved
      <4> QED
        BY <1>1, <3>1, <4>1 DEF Reserved, Settled, Cell
    <3>2. CASE Drained(Buf[b], n)
      BY <1>1, <3>2 DEF Drained
    <3> QED
      BY Zenon, <1>1, <3>1, <3>2 DEF IsDue
  <2>4. buffers_length[b] - n \in 0..MaxCapacity
    BY <1>1, <2>2
  <2> HIDE DEF b, n
  <2>5. /\ consumer'[c] \in ConsumerRecord
        /\ consumer'[c].pc = "slice"
        /\ consumer'[c].start = buffers_length[b] - n
        /\ consumer'[c].length = n
        /\ consumer'[c].index = b
    BY Zenon, <1>1, <2>1, <2>4 DEF ConsumerRecord, ConsumerPc, b, n
  <2>6. buffers_length[b] - n + n = buffers_length[b]
    BY <1>1
  <2>7. Buf' = Buf /\ Other' = Other => ConsumerInv(c)'
    BY Zenon, <1>1, <2>3, <2>5, <2>6 DEF ConsumerInv
  <2>8. consumer' = [consumer EXCEPT ![c] = consumer'[c]]
    BY Zenon, <1>2, <2>1 DEF TakeSlice, Goto
  <2> QED
    BY Zenon, <1>1, <1>2, <2>5, <2>7, <2>8, LocalStep DEF TakeSlice
<1>3. CASE GiveUpSpinning(c)
  <2>1. consumer'[c] = [consumer[c] EXCEPT !.pc = "store"]
    BY Zenon, <1>3 DEF IInv, TypeOK, GiveUpSpinning, Goto
  <2>2. /\ consumer'[c] \in ConsumerRecord
        /\ consumer'[c].pc = "store"
        /\ consumer'[c].length = n
        /\ consumer'[c].index = b
    BY Zenon, <1>1, <2>1 DEF ConsumerRecord, ConsumerPc
  <2>3. Buf' = Buf /\ Other' = Other => ConsumerInv(c)'
    BY Zenon, <1>1, <2>2 DEF ConsumerInv
  <2>4. consumer' = [consumer EXCEPT ![c] = consumer'[c]]
    BY Zenon, <1>3, <2>1 DEF GiveUpSpinning, Goto
  <2> QED
    BY Zenon, <1>1, <1>3, <2>2, <2>3, <2>4, LocalStep DEF GiveUpSpinning
<1> QED
  BY <1>2, <1>3

\* A buffer prepared with n acknowledged values has n cells reserved.
LEMMA PreparedIsReserved ==
    ASSUME NEW s, NEW n, Prepared(s, n), s.acked = n
    PROVE  Reserved(s, n)
<1>1. Cardinality(s.owed) = 0
  BY Zenon, FS_EmptySet DEF Prepared, Settled
<1>2. n + 0 = n
  BY DEF Prepared
<1> QED
  BY <1>1, <1>2 DEF Prepared, Settled, Reserved, Cell

\* The consumer reads the enqueuing word: it only goes on to the swap when
\* there is a reason for it, and later words have no more room.
LEMMA LoadInv ==
    ASSUME IInv, NEW c \in Consumers, LoadEnqueuing(c) \/ SwapRetry(c)
    PROVE  IInv'
<1> DEFINE t == consumer[c]
           e == enqueuing_capacity
<1>1. /\ t \in ConsumerRecord /\ ConsumerInv(c)
      /\ t.pc \in {"load", "swap"}
      /\ t.index \in Buffer /\ t.index = Other
      /\ Prepared(Buf[t.index], t.inserted) /\ Buf[t.index].acked = t.inserted
      /\ t.inserted \in Nat
      /\ e \in EnqueuingWord /\ e.index \in Buffer /\ e.remaining \in Nat
      /\ buf_capacity[e.index] \in Nat
      /\ 0 \in 0..MaxCapacity
  BY HolderFacts DEF LoadEnqueuing, SwapRetry, ConsumerInv, ConsumerRecord
<1>2. e.remaining <= buf_capacity[e.index]
  <2>1. Reserved(Buf[e.index], buf_capacity[e.index] - e.remaining)
    BY Zenon DEF IInv, EnqueuingInv
  <2> QED
    BY <1>1, <2>1 DEF Reserved
<1>3. CASE LoadEnqueuing(c) /\ NothingToDequeue(c, e)
  <2>1. consumer' = [consumer EXCEPT ![c] = At("store", t.index, 0)]
    BY Zenon, <1>3 DEF LoadEnqueuing
  <2>2. consumer'[c] = At("store", t.index, 0)
    BY Zenon, <2>1 DEF IInv, TypeOK
  <2>3. /\ consumer'[c] \in ConsumerRecord
        /\ consumer'[c].pc = "store"
        /\ consumer'[c].index = t.index /\ consumer'[c].length = 0
    <3>1. "store" \in ConsumerPc
      BY Zenon DEF ConsumerPc
    <3>2. NoWord \in EnqueuingWord
      BY Zenon, HolderFacts
    <3> QED
      BY <1>1, <2>2, <3>1, <3>2 DEF At, ConsumerRecord
  <2>4. IsDue(Buf[t.index], 0)
    BY Zenon, <1>1, <1>3, PreparedIsReserved DEF NothingToDequeue, IsDue
  <2>5. Buf' = Buf /\ Other' = Other => ConsumerInv(c)'
    BY Zenon, <1>1, <2>3, <2>4 DEF ConsumerInv
  <2>6. consumer' = [consumer EXCEPT ![c] = consumer'[c]]
    BY Zenon, <2>1, <2>2
  <2> QED
    BY Zenon, <1>1, <1>3, <2>3, <2>5, <2>6, LocalStep DEF LoadEnqueuing
<1>4. CASE ~(LoadEnqueuing(c) /\ NothingToDequeue(c, e))
  <2>1. consumer' =
            [consumer EXCEPT ![c] = [@ EXCEPT !.pc = "swap", !.seen = e]]
    <3>1. CASE LoadEnqueuing(c)
      BY Zenon, <1>4, <3>1 DEF LoadEnqueuing, Goto
    <3>2. CASE SwapRetry(c)
      <4>1. /\ consumer' = [consumer EXCEPT ![c] = [@ EXCEPT !.seen = e]]
            /\ t.pc = "swap"
        BY Zenon, <3>2 DEF SwapRetry
      <4>2. [t EXCEPT !.seen = e] = [t EXCEPT !.pc = "swap", !.seen = e]
        BY Zenon, <1>1, <4>1 DEF ConsumerRecord
      <4> QED
        BY Zenon, <4>1, <4>2
    <3> QED
      BY Zenon, <3>1, <3>2
  <2>2. consumer'[c] = [t EXCEPT !.pc = "swap", !.seen = e]
    BY Zenon, <2>1 DEF IInv, TypeOK
  <2>3. /\ consumer'[c] \in ConsumerRecord
        /\ consumer'[c].pc = "swap"
        /\ consumer'[c].index = t.index /\ consumer'[c].inserted = t.inserted
        /\ consumer'[c].resized = t.resized /\ consumer'[c].seen = e
    BY Zenon, <1>1, <2>2 DEF ConsumerRecord, ConsumerPc
  <2>4. t.resized \/ t.inserted > 0 \/ e.remaining < buf_capacity[e.index]
    <3>1. CASE LoadEnqueuing(c)
      BY <1>1, <1>2, <1>4, <3>1 DEF NothingToDequeue
    <3>2. CASE SwapRetry(c)
      <4>1. /\ WorthSwapping(t, buf_capacity[t.seen.index])
            /\ t.seen.index = e.index
            /\ e.remaining <= t.seen.remaining
        BY Zenon, <1>1, <3>2 DEF SwapRetry, ConsumerInv
      <4>2. t.seen.remaining \in Nat
        BY <1>1 DEF ConsumerRecord, EnqueuingWord
      <4> QED
        BY <1>1, <4>1, <4>2 DEF WorthSwapping
    <3> QED
      BY Zenon, <3>1, <3>2
  <2>5. UNCHANGED <<enqueuing_capacity, dequeuing_length, buffers_length,
                    buffer_vars, capacity, producer>>
    BY Zenon DEF LoadEnqueuing, SwapRetry
  <2>6. ASSUME Buf' = Buf, Other' = Other PROVE ConsumerInv(c)'
    <3>1. /\ consumer'[c].index = Other'
          /\ Prepared(Buf'[consumer'[c].index], consumer'[c].inserted)
          /\ Buf'[consumer'[c].index].acked = consumer'[c].inserted
      BY Zenon, <1>1, <2>3, <2>6
    <3>2. /\ enqueuing_capacity' = e /\ buf_capacity' = buf_capacity
          /\ e.remaining <= e.remaining
      BY <1>1, <2>5 DEF buffer_vars
    <3>3. WorthSwapping(consumer'[c], buf_capacity[e.index])
      BY Zenon, <2>3, <2>4 DEF WorthSwapping
    <3> QED
      BY Zenon, <1>2, <2>3, <3>1, <3>2, <3>3 DEF ConsumerInv
  <2>7. consumer' = [consumer EXCEPT ![c] = consumer'[c]]
    BY Zenon, <2>1, <2>2
  <2> QED
    BY Zenon, <1>1, <2>3, <2>5, <2>6, <2>7, LocalStep
<1> QED
  BY Zenon, <1>3, <1>4

\* Storing the dequeuing word, at the end of a call or to requeue a handle.
LEMMA StoreInv ==
    ASSUME IInv, NEW c \in Consumers, StoreDequeuing(c) \/ Requeue(c)
    PROVE  IInv'
<1> DEFINE t == consumer[c]
<1>1. /\ t \in ConsumerRecord /\ ConsumerInv(c)
      /\ t.pc \in {"store", "slice", "iter"}
      /\ t.index \in Buffer /\ t.index = Other
      /\ t.length \in 0..MaxCapacity /\ t.start \in Nat
      /\ Buf[t.index].capa \in Nat
  <2>1. t \in ConsumerRecord /\ ConsumerInv(c)
    BY Zenon, HolderFacts
  <2>2. t.pc \in {"store", "slice", "iter"}
    BY Zenon DEF StoreDequeuing, Requeue
  <2>3. t.index \in Buffer /\ t.length \in 0..MaxCapacity /\ t.start \in Nat
    BY <2>1 DEF ConsumerRecord
  <2>4. t.index = Other
    BY Zenon, <2>1, <2>2 DEF ConsumerInv
  <2>5. Buf[t.index].capa \in Nat
    BY <2>3, HolderFacts
  <2> QED
    BY Zenon, <2>1, <2>2, <2>3, <2>4, <2>5
<1>2. /\ UNCHANGED <<enqueuing_capacity, buffers_length, buf_capacity, cells,
                     capacity, producer>>
      /\ dequeuing_length' = DequeuingLength(t.index, t.length)
      /\ consumer' = [consumer EXCEPT ![c] = IdleConsumer]
  BY Zenon DEF StoreDequeuing, Requeue, buffer_vars
<1>3. Buf' = Buf /\ Other' = Other
  BY Zenon, <1>2, OwedUnchanged DEF Buf, Other
<1>4. IsDue(Buf[t.index], t.length)
  <2>1. CASE StoreDequeuing(c)
    BY Zenon, <1>1, <2>1 DEF StoreDequeuing, ConsumerInv
  <2>2. CASE Requeue(c)
    <3>1. /\ t.length > 0
          /\ Buf[t.index].acked = t.start + t.length
          /\ Buf[t.index].acked <= Buf[t.index].capa
          /\ Settled(Buf[t.index], t.start, t.start + t.length)
      BY Zenon, <1>1, <2>2 DEF Requeue, ConsumerInv
    <3>2. Buf[t.index].acked - t.length = t.start
      BY <1>1, <3>1
    <3>3. Drained(Buf[t.index], t.length)
      BY <1>1, <3>1, <3>2 DEF Drained
    <3> QED
      BY Zenon, <3>3 DEF IsDue
  <2> QED
    BY Zenon, <2>1, <2>2
<1>5. /\ dequeuing_length' \in DequeuingWord
      /\ dequeuing_length'.index = t.index
      /\ dequeuing_length'.length = t.length
  BY Zenon, <1>1, <1>2 DEF DequeuingLength, DequeuingWord
<1>6. UnlockedInv'
  BY Zenon, <1>1, <1>3, <1>4, <1>5 DEF UnlockedInv
<1>7. /\ consumer'[c] = IdleConsumer
      /\ consumer' = [consumer EXCEPT ![c] = consumer'[c]]
  BY Zenon, <1>2 DEF IInv, TypeOK
<1>8. consumer'[c] \in ConsumerRecord /\ consumer'[c].pc = "idle"
  <2>1. "idle" \in ConsumerPc /\ 0 \in Buffer /\ 0 \in 0..MaxCapacity
    BY QueueAssumption DEF ConsumerPc, Buffer, QueueAssumption
  <2>2. NoWord \in EnqueuingWord
    BY Zenon, HolderFacts
  <2> QED
    BY <1>7, <2>1, <2>2 DEF IdleConsumer, At, ConsumerRecord
<1>9. EnqueuingInv' /\ ConsumerInv(c)'
  BY Zenon, <1>2, <1>3, <1>8, IdleConsumerInv DEF IInv, EnqueuingInv
<1>10. CapacityIsPublished'
  <2>1. \A d \in Consumers : consumer[d].pc # "notify"
    BY Zenon, <1>1 DEF IInv, LockIsExclusive
  <2> QED
    BY Zenon, <1>2, <2>1 DEF IInv, CapacityIsPublished
<1> QED
  BY Zenon, <1>1, <1>2, <1>5, <1>6, <1>7, <1>8, <1>9, <1>10, HolderStep
     DEF IInv, TypeOK

\* The swap: the dequeuing buffer, with what was inserted in it, becomes the
\* enqueuing one, and what was reserved in the other becomes due.
LEMMA SwapInv ==
    ASSUME IInv, NEW c \in Consumers, SwapBuffers(c)
    PROVE  IInv'
<1> DEFINE t == consumer[c]
           e == enqueuing_capacity
           b == t.index
<1>1. /\ t \in ConsumerRecord /\ ConsumerInv(c)
      /\ t.pc = "swap" /\ t.seen = e
      /\ b \in Buffer /\ b = Other
      /\ t.inserted \in Nat
      /\ e \in EnqueuingWord
      /\ buf_capacity[b] \in 0..MaxCapacity /\ MaxCapacity \in Nat
      /\ Buf[b].capa = buf_capacity[b]
  <2>1. t \in ConsumerRecord /\ t.pc = "swap"
    BY Zenon, HolderFacts DEF SwapBuffers
  <2> QED
    <3>1. ConsumerInv(c)
      BY Zenon, HolderFacts
    <3>2. b = Other
      BY Zenon, <2>1, <3>1 DEF ConsumerInv
    <3>3. b \in Buffer /\ t.inserted \in Nat
      BY <2>1 DEF ConsumerRecord
    <3>4. t.seen = e
      BY Zenon DEF SwapBuffers
    <3> QED
      BY Zenon, <2>1, <3>1, <3>2, <3>3, <3>4, HolderFacts
<1>2. /\ Prepared(Buf[b], t.inserted) /\ Buf[b].acked = t.inserted
      /\ WorthSwapping(t, buf_capacity[e.index])
  BY Zenon, <1>1 DEF ConsumerInv
<1>3. t.inserted <= buf_capacity[b]
  BY <1>1, <1>2 DEF Prepared
<1>4. /\ UNCHANGED <<dequeuing_length, buffers_length, buf_capacity, cells,
                     capacity, producer>>
      /\ enqueuing_capacity' =
            [index |-> b, remaining |-> buf_capacity[b] - t.inserted,
             closed |-> e.closed]
      /\ consumer' = [consumer EXCEPT ![c] = [t EXCEPT !.pc = "notify"]]
  BY Zenon, <1>1
     DEF SwapBuffers, Goto, buffer_vars, WithClosed, EnqueuingCapacity
<1>5. /\ enqueuing_capacity' \in EnqueuingWord
      /\ enqueuing_capacity'.index = b
      /\ enqueuing_capacity'.remaining = buf_capacity[b] - t.inserted
  BY <1>1, <1>3, <1>4 DEF EnqueuingWord
<1>6. Buf' = Buf /\ Other' = e.index
  BY <1>1, <1>4, <1>5, OwedUnchanged DEF Buf, Other, EnqueuingWord, Buffer
<1>7. /\ consumer'[c] = [t EXCEPT !.pc = "notify"]
      /\ consumer' = [consumer EXCEPT ![c] = consumer'[c]]
  BY Zenon, <1>4 DEF IInv, TypeOK
<1>8. /\ consumer'[c] \in ConsumerRecord
      /\ consumer'[c].pc = "notify" /\ consumer'[c].index = b
      /\ consumer'[c].seen = e /\ consumer'[c].inserted = t.inserted
      /\ consumer'[c].resized = t.resized
  BY Zenon, <1>1, <1>7 DEF ConsumerRecord, ConsumerPc
<1>9. EnqueuingInv'
  <2>1. Reserved(Buf[b], t.inserted)
    BY Zenon, <1>2, PreparedIsReserved
  <2>2. buf_capacity[b] - (buf_capacity[b] - t.inserted) = t.inserted
    BY <1>1
  <2> QED
    BY Zenon, <1>4, <1>5, <1>6, <2>1, <2>2 DEF EnqueuingInv
<1>10. ConsumerInv(c)'
  <2>1. Reserved(Buf[e.index], buf_capacity[e.index] - e.remaining)
    BY Zenon DEF IInv, EnqueuingInv
  <2>2. WorthSwapping(consumer'[c], buf_capacity[e.index])
    BY Zenon, <1>1, <1>2, <1>8 DEF WorthSwapping
  <2> QED
    BY Zenon, <1>4, <1>5, <1>6, <1>8, <2>1, <2>2 DEF ConsumerInv
<1>11. CapacityIsPublished'
  BY Zenon, <1>8 DEF CapacityIsPublished
<1> QED
  BY Zenon, <1>1, <1>4, <1>5, <1>7, <1>8, <1>9, <1>10, <1>11, HolderStep
     DEF IInv, TypeOK

\* A buffer with no cell reserved is ready to be filled again.
LEMMA ReservedNoneIsPrepared ==
    ASSUME NEW s, Reserved(s, 0), s.acked \in Nat, s.capa \in Nat,
           Cardinality(s.owed) \in Nat,
           Cardinality(s.owed) = 0 <=> s.owed = {}
    PROVE  Prepared(s, 0) /\ s.acked = 0
<1>1. s.acked = 0 /\ s.owed = {}
  BY DEF Reserved
<1> QED
  BY <1>1 DEF Reserved, Prepared, Settled, Cell

\* After the swap, the consumer goes on with the buffer swapped out.
LEMMA PublishInv ==
    ASSUME IInv, NEW c \in Consumers, PublishCapacity(c)
    PROVE  IInv'
<1> DEFINE t == consumer[c]
           e == enqueuing_capacity
           old == t.seen.index
           n == SwappedLength(c)
<1>1. /\ t \in ConsumerRecord /\ ConsumerInv(c)
      /\ t.pc = "notify" /\ t.index = e.index /\ old = Other
      /\ old \in Buffer /\ e.index \in Buffer
      /\ Reserved(Buf[old], n)
  <2>1. t \in ConsumerRecord /\ t.pc = "notify"
    BY Zenon, HolderFacts DEF PublishCapacity
  <2> QED
    BY Zenon, <2>1, HolderFacts DEF ConsumerInv, SwappedLength
<1>2. /\ buf_capacity[old] \in 0..MaxCapacity /\ MaxCapacity \in Nat
      /\ buf_capacity[e.index] \in 0..MaxCapacity
      /\ Buf[old].capa = buf_capacity[old]
      /\ Buf[old].acked \in Nat
      /\ NoWord \in EnqueuingWord
      /\ Cardinality(Buf[old].owed) \in Nat
      /\ Cardinality(Buf[old].owed) = 0 <=> Buf[old].owed = {}
  <2>1. Buf[old].owed = Owed[old]
    BY Zenon, <1>1, HolderFacts
  <2>2. /\ Cardinality(Buf[old].owed) \in Nat
        /\ Cardinality(Buf[old].owed) = 0 <=> Buf[old].owed = {}
    BY Zenon, <1>1, <2>1, OwedFinite
  <2> QED
    BY <1>1, <2>2, HolderFacts
<1>3. n \in 0..MaxCapacity
  <2>1. n \in 0..buf_capacity[old]
    BY Zenon, <1>1, <1>2 DEF Reserved
  <2> QED
    BY <1>2, <2>1
<1>4. /\ UNCHANGED <<enqueuing_capacity, dequeuing_length, buffers_length,
                     buf_capacity, cells, producer>>
      /\ capacity' = buf_capacity[e.index]
  BY Zenon, <1>1 DEF PublishCapacity, buffer_vars
<1>5. Buf' = Buf /\ Other' = Other
  BY Zenon, <1>4, OwedUnchanged DEF Buf, Other
<1>6. PICK pc \in {"spin", "load", "store"} :
          /\ consumer' = [consumer EXCEPT ![c] = At(pc, old, n)]
          /\ pc = "spin" <=> n > 0
  <2>1. CASE n > 0
    <3>1. n # 0
      BY <1>3, <2>1
    <3>2. consumer' = [consumer EXCEPT ![c] = At("spin", old, n)]
      BY Zenon, <2>1, <3>1 DEF PublishCapacity
    <3> QED
      BY Zenon, <2>1, <3>2
  <2>2. CASE n = 0 /\ t.inserted > 0
    <3>1. ~(n > 0)
      BY <2>2
    <3>2. consumer' = [consumer EXCEPT ![c] = At("load", old, 0)]
      BY Zenon, <2>2, <3>1 DEF PublishCapacity
    <3> QED
      BY Zenon, <2>2, <3>1, <3>2
  <2>3. CASE n = 0 /\ ~(t.inserted > 0)
    BY Zenon, <2>3 DEF PublishCapacity
  <2> QED
    BY <1>3, <2>1, <2>2, <2>3
<1> HIDE DEF n
<1>7. /\ consumer'[c] = At(pc, old, n)
      /\ consumer' = [consumer EXCEPT ![c] = consumer'[c]]
  BY Zenon, <1>6 DEF IInv, TypeOK
<1>8. /\ consumer'[c] \in ConsumerRecord
      /\ consumer'[c].pc = pc /\ consumer'[c].index = old
      /\ consumer'[c].length = n /\ consumer'[c].inserted = 0
  BY <1>1, <1>2, <1>3, <1>7 DEF At, ConsumerRecord, ConsumerPc
<1>9. ConsumerInv(c)'
  <2>1. CASE pc = "spin"
    BY Zenon, <1>1, <1>5, <1>6, <1>8, <2>1 DEF ConsumerInv, IsDue
  <2>2. CASE pc = "store"
    BY Zenon, <1>1, <1>5, <1>8, <2>2 DEF ConsumerInv, IsDue
  <2>3. CASE pc = "load"
    <3>1. n = 0
      BY <1>3, <1>6, <2>3
    <3>2. Prepared(Buf[old], 0) /\ Buf[old].acked = 0
      BY <1>1, <1>2, <3>1, ReservedNoneIsPrepared
    <3> QED
      BY Zenon, <1>1, <1>5, <1>8, <2>3, <3>2 DEF ConsumerInv
  <2> QED
    BY Zenon, <2>1, <2>2, <2>3
<1>10. EnqueuingInv' /\ CapacityIsPublished'
  BY Zenon, <1>4, <1>5 DEF IInv, EnqueuingInv, CapacityIsPublished
<1>11. consumer'[c].pc # "idle"
  BY Zenon, <1>8
<1> QED
  BY Zenon, <1>1, <1>2, <1>4, <1>7, <1>8, <1>9, <1>10, <1>11, HolderStep
     DEF IInv, TypeOK

-----------------------------------------------------------------------------
(* The steps in which a consumer changes the buffer it owns.               *)

\* A step of the holder c that changes the content or the length of its
\* buffer, of which nobody owes a cell.
LEMMA BufferStep ==
    ASSUME IInv, NEW c \in Consumers, consumer[c].pc \notin {"idle", "notify"},
           Owed[consumer[c].index] = {},
           UNCHANGED <<enqueuing_capacity, dequeuing_length, buf_capacity,
                       capacity, producer>>,
           \A d \in Buffer \ {consumer[c].index} :
               cells'[d] = cells[d] /\ buffers_length'[d] = buffers_length[d],
           cells' \in [Buffer -> [Cell -> Element \cup {Uninit}]],
           buffers_length' \in [Buffer -> 0..MaxCapacity],
           consumer' = [consumer EXCEPT ![c] = consumer'[c]],
           consumer'[c].pc \notin {"idle", "notify"},
           consumer'[c].index = consumer[c].index,
           consumer'[c] \in ConsumerRecord,
           /\ Other' = Other
           /\ Buf'[consumer[c].index] =
                 [owed |-> {}, cells |-> cells'[consumer[c].index],
                  acked |-> buffers_length'[consumer[c].index],
                  capa |-> buf_capacity[consumer[c].index]]
           => ConsumerInv(c)'
    PROVE  IInv'
<1> DEFINE b == consumer[c].index
<1>0. TypeOK /\ b \in Buffer /\ b = Other /\ enqueuing_capacity.index # b
      /\ enqueuing_capacity.index \in Buffer
  <2>1. /\ consumer[c] \in ConsumerRecord /\ ConsumerInv(c)
        /\ Other # enqueuing_capacity.index
        /\ enqueuing_capacity.index \in Buffer
    BY Zenon, HolderFacts
  <2> QED
    BY Zenon, <2>1 DEF IInv, ConsumerInv, ConsumerRecord
<1>1. \A d \in Buffer : \A i \in Owed[d] : cells'[d][i] = cells[d][i]
  BY Zenon, <1>0
<1>2. Owed' = Owed /\ Other' = Other
  BY Zenon, OwedUnchanged DEF Other
<1>3. /\ Buf'[b] = [owed |-> {}, cells |-> cells'[b],
                    acked |-> buffers_length'[b], capa |-> buf_capacity[b]]
      /\ Buf'[enqueuing_capacity.index] = Buf[enqueuing_capacity.index]
  BY Zenon, <1>0, <1>2 DEF Buf
<1>4. EnqueuingInv'
  BY Zenon, <1>3 DEF IInv, EnqueuingInv
<1>5. CapacityIsPublished'
  <2>1. \A d \in Consumers : consumer[d].pc # "notify"
    BY Zenon DEF IInv, LockIsExclusive
  <2> QED
    BY Zenon, <2>1 DEF IInv, CapacityIsPublished
<1>6. ConsumerInv(c)'
  BY Zenon, <1>2, <1>3
<1>7. /\ enqueuing_capacity' \in EnqueuingWord
      /\ capacity' \in 0..MaxCapacity
  BY Zenon, <1>0 DEF TypeOK
<1> QED
  BY Zenon, <1>1, <1>4, <1>5, <1>6, <1>7, HolderStep

\* Erasing cells.
LEMMA EraseFacts ==
    ASSUME NEW content \in [Cell -> Element \cup {Uninit}],
           NEW i \in Int, NEW n \in Int
    PROVE  /\ Erase(content, i, n) \in [Cell -> Element \cup {Uninit}]
           /\ \A j \in Cell : Erase(content, i, n)[j] # Uninit <=>
                  content[j] # Uninit /\ ~(i <= j /\ j < i + n)
  BY DEF Erase, Cell

\* release clears the cells of the range and the acknowledged length.
LEMMA ReleaseInv ==
    ASSUME IInv, NEW c \in Consumers, Release(c)
    PROVE  IInv'
<1> DEFINE t == consumer[c]
           b == t.index
<1>1. /\ t \in ConsumerRecord /\ t.pc \in {"slice", "iter"}
      /\ b \in Buffer /\ b = Other
      /\ t.start \in Nat /\ t.length \in Nat
      /\ Settled(Buf[b], t.start, t.start + t.length)
      /\ buf_capacity[b] \in Nat
      /\ Buf[b].owed = Owed[b] /\ Buf[b].cells = cells[b]
      /\ NoWord \in EnqueuingWord /\ MaxCapacity \in Nat
  <2>1. t \in ConsumerRecord /\ ConsumerInv(c) /\ t.pc \in {"slice", "iter"}
    BY Zenon, HolderFacts DEF Release
  <2>2. b \in Buffer /\ t.start \in Nat /\ t.length \in Nat
    BY <2>1 DEF ConsumerRecord
  <2>3. /\ buf_capacity[b] \in 0..MaxCapacity /\ MaxCapacity \in Nat
        /\ Buf[b].owed = Owed[b] /\ Buf[b].cells = cells[b]
        /\ NoWord \in EnqueuingWord
    BY Zenon, <2>2, HolderFacts
  <2>4. buf_capacity[b] \in Nat
    BY <2>3
  <2>5. b = Other /\ Settled(Buf[b], t.start, t.start + t.length)
    BY Zenon, <2>1 DEF ConsumerInv
  <2> QED
    BY Zenon, <2>1, <2>2, <2>3, <2>4, <2>5
<1>2. /\ cells \in [Buffer -> [Cell -> Element \cup {Uninit}]]
      /\ buffers_length \in [Buffer -> 0..MaxCapacity]
      /\ Owed[b] = {}
  BY Zenon, <1>1 DEF IInv, TypeOK, Settled
<1>3. /\ cells' = [cells EXCEPT ![b] = Erase(cells[b], t.start, t.length)]
      /\ buffers_length' = [buffers_length EXCEPT ![b] = 0]
      /\ consumer' = [consumer EXCEPT ![c] = At("store", b, 0)]
      /\ UNCHANGED <<enqueuing_capacity, dequeuing_length, buf_capacity,
                     capacity, producer>>
  BY Zenon DEF Release
<1>4. /\ consumer'[c] = At("store", b, 0)
      /\ consumer' = [consumer EXCEPT ![c] = consumer'[c]]
  BY Zenon, <1>3 DEF IInv, TypeOK
<1>5. /\ consumer'[c] \in ConsumerRecord
      /\ consumer'[c].pc = "store" /\ consumer'[c].index = b
      /\ consumer'[c].length = 0
  BY <1>1, <1>4 DEF At, ConsumerRecord, ConsumerPc
<1>6. /\ cells' \in [Buffer -> [Cell -> Element \cup {Uninit}]]
      /\ buffers_length' \in [Buffer -> 0..MaxCapacity]
      /\ \A i \in Cell : cells'[b][i] = Uninit
      /\ buffers_length'[b] = 0
      /\ \A d \in Buffer \ {b} :
            cells'[d] = cells[d] /\ buffers_length'[d] = buffers_length[d]
  <2>1. /\ Erase(cells[b], t.start, t.length)
              \in [Cell -> Element \cup {Uninit}]
        /\ \A j \in Cell : Erase(cells[b], t.start, t.length)[j] # Uninit <=>
               /\ cells[b][j] # Uninit
               /\ ~(t.start <= j /\ j < t.start + t.length)
    BY <1>1, <1>2, EraseFacts
  <2>2. \A j \in Cell : Erase(cells[b], t.start, t.length)[j] = Uninit
    BY Zenon, <1>1, <2>1 DEF Settled
  <2> QED
    BY <1>1, <1>2, <1>3, <2>1, <2>2
<1>7. ASSUME Other' = Other,
             Buf'[b] = [owed |-> {}, cells |-> cells'[b],
                        acked |-> buffers_length'[b], capa |-> buf_capacity[b]]
      PROVE  ConsumerInv(c)'
  <2>1. Reserved(Buf'[b], 0)
    BY <1>1, <1>6, <1>7, FS_EmptySet DEF Reserved, Cell
  <2> QED
    BY Zenon, <1>1, <1>5, <1>7, <2>1 DEF ConsumerInv, IsDue
<1> QED
  BY Zenon, <1>1, <1>2, <1>3, <1>4, <1>5, <1>6, <1>7, BufferStep

\* BufferIter::next moves the lower end of the range up with the values.
LEMMA NextValueInv ==
    ASSUME IInv, NEW c \in Consumers, NextValue(c)
    PROVE  IInv'
<1> DEFINE t == consumer[c]
           b == t.index
<1>1. /\ t \in ConsumerRecord /\ t.pc = "iter"
      /\ b \in Buffer /\ b = Other
      /\ t.start \in Nat /\ t.length \in Nat /\ t.length > 0
      /\ Settled(Buf[b], t.start, t.start + t.length)
      /\ buffers_length[b] = t.start + t.length
      /\ buffers_length[b] <= buf_capacity[b]
      /\ buffers_length[b] \in 0..MaxCapacity /\ MaxCapacity \in Nat
      /\ Buf[b].owed = Owed[b] /\ Buf[b].cells = cells[b]
  <2>1. t \in ConsumerRecord /\ ConsumerInv(c) /\ t.pc = "iter"
    BY Zenon, HolderFacts DEF NextValue
  <2>2. b \in Buffer /\ t.start \in Nat /\ t.length \in Nat
    BY <2>1 DEF ConsumerRecord
  <2>3. /\ buffers_length[b] \in 0..MaxCapacity /\ MaxCapacity \in Nat
        /\ Buf[b].owed = Owed[b] /\ Buf[b].cells = cells[b]
        /\ Buf[b].acked = buffers_length[b] /\ Buf[b].capa = buf_capacity[b]
    BY Zenon, <2>2, HolderFacts
  <2> QED
    BY Zenon, <2>1, <2>2, <2>3 DEF ConsumerInv, NextValue
<1>2. /\ cells \in [Buffer -> [Cell -> Element \cup {Uninit}]]
      /\ buffers_length \in [Buffer -> 0..MaxCapacity]
      /\ Owed[b] = {}
  BY Zenon, <1>1 DEF IInv, TypeOK, Settled
<1>3. /\ cells' = [cells EXCEPT ![b] = Erase(cells[b], t.start, 1)]
      /\ consumer' = [consumer EXCEPT ![c] =
                         [t EXCEPT !.start = t.start + 1,
                                   !.length = t.length - 1]]
      /\ UNCHANGED <<enqueuing_capacity, dequeuing_length, buffers_length,
                     buf_capacity, capacity, producer>>
  BY Zenon DEF NextValue
<1>4. /\ consumer'[c] = [t EXCEPT !.start = t.start + 1,
                                  !.length = t.length - 1]
      /\ consumer' = [consumer EXCEPT ![c] = consumer'[c]]
  BY Zenon, <1>3 DEF IInv, TypeOK
<1>5. /\ consumer'[c] \in ConsumerRecord
      /\ consumer'[c].pc = "iter" /\ consumer'[c].index = b
      /\ consumer'[c].start = t.start + 1
      /\ consumer'[c].length = t.length - 1
  <2>1. t.start + 1 \in 0..MaxCapacity /\ t.length - 1 \in 0..MaxCapacity
    BY <1>1
  <2> QED
    BY Zenon, <1>1, <1>4, <2>1 DEF ConsumerRecord
<1>6. /\ cells' \in [Buffer -> [Cell -> Element \cup {Uninit}]]
      /\ \A i \in Cell : cells'[b][i] # Uninit <=>
            (t.start + 1 <= i /\ i < t.start + t.length)
      /\ \A d \in Buffer \ {b} :
            cells'[d] = cells[d] /\ buffers_length'[d] = buffers_length[d]
  <2>1. /\ Erase(cells[b], t.start, 1) \in [Cell -> Element \cup {Uninit}]
        /\ \A j \in Cell : Erase(cells[b], t.start, 1)[j] # Uninit <=>
               cells[b][j] # Uninit /\ ~(t.start <= j /\ j < t.start + 1)
    BY <1>1, <1>2, EraseFacts
  <2>2. \A j \in Cell : Erase(cells[b], t.start, 1)[j] # Uninit <=>
            (t.start + 1 <= j /\ j < t.start + t.length)
    BY <1>1, <2>1 DEF Settled, Cell
  <2> QED
    BY Zenon, <1>1, <1>2, <1>3, <2>1, <2>2
<1>7. ASSUME Other' = Other,
             Buf'[b] = [owed |-> {}, cells |-> cells'[b],
                        acked |-> buffers_length'[b], capa |-> buf_capacity[b]]
      PROVE  ConsumerInv(c)'
  <2>1. t.start + 1 + (t.length - 1) = t.start + t.length
    BY <1>1
  <2>2. Settled(Buf'[b], t.start + 1, t.start + t.length)
    BY <1>6, <1>7 DEF Settled
  <2>3. /\ Buf'[b].acked = t.start + t.length
        /\ Buf'[b].capa = buf_capacity[b]
    BY <1>1, <1>3, <1>7
  <2>4. Buf'[b].acked <= Buf'[b].capa
    BY Zenon, <1>1, <2>3
  <2> HIDE DEF b
  <2>5. consumer'[c].index = Other'
    BY Zenon, <1>1, <1>5, <1>7
  <2> QED
    BY Zenon, <1>5, <2>1, <2>2, <2>3, <2>4, <2>5 DEF ConsumerInv
<1>8. buffers_length' \in [Buffer -> 0..MaxCapacity]
  BY Zenon, <1>2, <1>3
<1> QED
  BY Zenon, <1>1, <1>2, <1>3, <1>4, <1>5, <1>6, <1>7, <1>8, BufferStep

\* The values inserted by the resize closure are acknowledged.
LEMMA InsertDoneInv ==
    ASSUME IInv, NEW c \in Consumers, InsertDone(c)
    PROVE  IInv'
<1> DEFINE t == consumer[c]
           b == t.index
<1>1. /\ t \in ConsumerRecord /\ t.pc = "insert"
      /\ b \in Buffer /\ b = Other
      /\ t.inserted \in 0..MaxCapacity
      /\ Prepared(Buf[b], t.inserted)
      /\ buffers_length[b] = 0
      /\ Buf[b].owed = Owed[b] /\ Buf[b].cells = cells[b]
      /\ Buf[b].capa = buf_capacity[b]
  <2>1. t \in ConsumerRecord /\ ConsumerInv(c) /\ t.pc = "insert"
    BY Zenon, HolderFacts DEF InsertDone
  <2>2. b \in Buffer /\ t.inserted \in 0..MaxCapacity
    BY Zenon, <2>1 DEF ConsumerRecord
  <2>3. /\ Buf[b].owed = Owed[b] /\ Buf[b].cells = cells[b]
        /\ Buf[b].acked = buffers_length[b] /\ Buf[b].capa = buf_capacity[b]
    BY Zenon, <2>2, HolderFacts
  <2> QED
    BY Zenon, <2>1, <2>2, <2>3 DEF ConsumerInv
<1>2. /\ cells \in [Buffer -> [Cell -> Element \cup {Uninit}]]
      /\ buffers_length \in [Buffer -> 0..MaxCapacity]
      /\ Owed[b] = {}
  BY Zenon, <1>1 DEF IInv, TypeOK, Prepared, Settled
<1>3. /\ buffers_length' = [buffers_length EXCEPT ![b] = 0 + t.inserted]
      /\ consumer' = [consumer EXCEPT ![c] = [t EXCEPT !.pc = "load"]]
      /\ UNCHANGED <<enqueuing_capacity, dequeuing_length, buf_capacity,
                     cells, capacity, producer>>
  BY Zenon, <1>1 DEF InsertDone, Goto, buffer_vars
<1>4. /\ consumer'[c] = [t EXCEPT !.pc = "load"]
      /\ consumer' = [consumer EXCEPT ![c] = consumer'[c]]
  BY Zenon, <1>3 DEF IInv, TypeOK
<1>5. /\ consumer'[c] \in ConsumerRecord
      /\ consumer'[c].pc = "load" /\ consumer'[c].index = b
      /\ consumer'[c].inserted = t.inserted
  BY Zenon, <1>1, <1>4 DEF ConsumerRecord, ConsumerPc
<1>6. /\ buffers_length' \in [Buffer -> 0..MaxCapacity]
      /\ buffers_length'[b] = t.inserted
      /\ \A d \in Buffer \ {b} :
            cells'[d] = cells[d] /\ buffers_length'[d] = buffers_length[d]
  <2>1. 0 + t.inserted = t.inserted
    BY <1>1
  <2> QED
    BY Zenon, <1>1, <1>2, <1>3, <2>1
<1>7. ASSUME Other' = Other,
             Buf'[b] = [owed |-> {}, cells |-> cells'[b],
                        acked |-> buffers_length'[b], capa |-> buf_capacity[b]]
      PROVE  ConsumerInv(c)'
  <2>1. Prepared(Buf'[b], t.inserted)
    BY <1>1, <1>2, <1>3, <1>7 DEF Prepared, Settled
  <2> QED
    BY SMTT(40), <1>1, <1>5, <1>6, <1>7, <2>1 DEF ConsumerInv
<1>8. cells' \in [Buffer -> [Cell -> Element \cup {Uninit}]]
  BY Zenon, <1>2, <1>3
<1> QED
  BY Zenon, <1>1, <1>2, <1>3, <1>4, <1>5, <1>6, <1>7, <1>8, BufferStep

\* Writing the first k elements of a value.
LEMMA InsertFacts ==
    ASSUME NEW content \in [Cell -> Element \cup {Uninit}], NEW i \in Nat,
           NEW v \in Seq(Element), NEW k \in Nat, k <= Len(v)
    PROVE  /\ InsertInto(content, i, v, k) \in [Cell -> Element \cup {Uninit}]
           /\ \A j \in Cell : InsertInto(content, i, v, k)[j] # Uninit <=>
                  content[j] # Uninit \/ (i <= j /\ j < i + k)
<1>1. \A j \in Cell : j \in i..(i + k - 1) <=> (i <= j /\ j < i + k)
  BY DEF Cell
<1>2. \A j \in Cell : j \in i..(i + k - 1) => j - i + 1 \in 1..Len(v)
  BY DEF Cell
<1>3. \A m \in 1..Len(v) : v[m] \in Element /\ v[m] # Uninit
  BY QueueAssumption DEF QueueAssumption
<1>4. \A j \in Cell : j \in i..(i + k - 1) =>
          v[j - i + 1] \in Element /\ v[j - i + 1] # Uninit
  BY Zenon, <1>2, <1>3
<1>5. InsertInto(content, i, v, k) =
          [j \in Cell |-> IF j \in i..(i + k - 1) THEN v[j - i + 1]
                                                  ELSE content[j]]
  BY Zenon DEF InsertInto
<1> QED
  BY Zenon, <1>1, <1>4, <1>5

\* One turn of the insertion loop of the resize closure, whether the value
\* fits or the write past the last cell panics.
LEMMA InsertMoreInv ==
    ASSUME IInv, NEW c \in Consumers, InsertMore(c) \/ InsertMorePanics(c)
    PROVE  IInv'
<1> DEFINE t == consumer[c]
           b == t.index
           n == t.inserted
<1>1. /\ t \in ConsumerRecord /\ t.pc = "insert"
      /\ b \in Buffer /\ b = Other
      /\ n \in Nat
      /\ Prepared(Buf[b], n)
      /\ buffers_length[b] = 0
      /\ buf_capacity[b] \in 0..MaxCapacity /\ MaxCapacity \in Nat
      /\ Buf[b].owed = Owed[b] /\ Buf[b].cells = cells[b]
      /\ Buf[b].capa = buf_capacity[b]
  <2>1. t \in ConsumerRecord /\ ConsumerInv(c) /\ t.pc = "insert"
    BY Zenon, HolderFacts DEF InsertMore, InsertMorePanics
  <2>2. b \in Buffer /\ n \in Nat
    BY <2>1 DEF ConsumerRecord
  <2>3. /\ Buf[b].owed = Owed[b] /\ Buf[b].cells = cells[b]
        /\ Buf[b].acked = buffers_length[b] /\ Buf[b].capa = buf_capacity[b]
        /\ buf_capacity[b] \in 0..MaxCapacity /\ MaxCapacity \in Nat
    BY Zenon, <2>2, HolderFacts
  <2> QED
    BY Zenon, <2>1, <2>2, <2>3 DEF ConsumerInv
<1>2. /\ cells \in [Buffer -> [Cell -> Element \cup {Uninit}]]
      /\ buffers_length \in [Buffer -> 0..MaxCapacity]
      /\ Owed[b] = {} /\ n <= buf_capacity[b]
      /\ \A i \in Cell : cells[b][i] # Uninit <=> (0 <= i /\ i < n)
  <2>1. /\ cells \in [Buffer -> [Cell -> Element \cup {Uninit}]]
        /\ buffers_length \in [Buffer -> 0..MaxCapacity]
    BY Zenon DEF IInv, TypeOK
  <2> QED
    BY <1>1, <2>1 DEF Prepared, Settled
<1> DEFINE Panics(u) == u = [t EXCEPT !.pc = "panicked"]
           Counts(u, v, k) == /\ k = Len(v) /\ n + k <= buf_capacity[b]
                              /\ u = [t EXCEPT !.inserted = n + k]
<1>3. PICK v \in Inserts, k \in Nat :
          /\ k <= Len(v)
          /\ cells' = [cells EXCEPT ![b] = InsertInto(cells[b], n, v, k)]
          /\ consumer' = [consumer EXCEPT ![c] = consumer'[c]]
          /\ Counts(consumer'[c], v, k) \/ Panics(consumer'[c])
  <2>0. /\ \A v \in Inserts : Len(v) \in Nat
        /\ consumer = [d \in Consumers |-> consumer[d]]
    BY QueueAssumption DEF QueueAssumption, IInv, TypeOK
  <2>1. CASE InsertMore(c)
    <3>1. PICK v \in Inserts :
              /\ n + Len(v) <= buf_capacity[b]
              /\ cells' = [cells EXCEPT ![b] =
                              InsertInto(cells[b], n, v, Len(v))]
              /\ consumer' = [consumer EXCEPT ![c] =
                                 [t EXCEPT !.inserted = n + Len(v)]]
      BY Zenon, <2>1 DEF InsertMore
    <3>2. Len(v) \in Nat /\ Len(v) <= Len(v)
      BY <2>0
    <3>3. Counts(consumer'[c], v, Len(v))
      BY Zenon, <2>0, <3>1
    <3>4. consumer' = [consumer EXCEPT ![c] = consumer'[c]]
      BY Zenon, <2>0, <3>1
    <3> QED
      BY Zenon, <3>1, <3>2, <3>3, <3>4
  <2>2. CASE InsertMorePanics(c)
    <3>1. PICK v \in Inserts : \E k \in 0..(Len(v) - 1) :
              cells' = [cells EXCEPT ![b] = InsertInto(cells[b], n, v, k)]
      BY Zenon, <2>2 DEF InsertMorePanics
    <3>2. PICK k \in 0..(Len(v) - 1) :
              cells' = [cells EXCEPT ![b] = InsertInto(cells[b], n, v, k)]
      BY Zenon, <3>1
    <3>3. k \in Nat /\ k <= Len(v)
      BY <2>0
    <3>4. consumer' = [consumer EXCEPT ![c] = [t EXCEPT !.pc = "panicked"]]
      BY Zenon, <2>2 DEF InsertMorePanics, Goto
    <3>5. /\ Panics(consumer'[c])
          /\ consumer' = [consumer EXCEPT ![c] = consumer'[c]]
      BY Zenon, <2>0, <3>4
    <3> QED
      BY Zenon, <3>2, <3>3, <3>5
  <2> QED
    BY Zenon, <2>1, <2>2
<1>4. v \in Seq(Element) /\ Len(v) \in Nat
  BY QueueAssumption DEF QueueAssumption
<1>5. k \in Nat /\ k <= Len(v)
  BY Zenon, <1>3
<1>6. /\ InsertInto(cells[b], n, v, k) \in [Cell -> Element \cup {Uninit}]
      /\ \A j \in Cell : InsertInto(cells[b], n, v, k)[j] # Uninit <=>
             cells[b][j] # Uninit \/ (n <= j /\ j < n + k)
  BY Zenon, <1>1, <1>2, <1>4, <1>5, InsertFacts
<1>7. /\ consumer' = [consumer EXCEPT ![c] = consumer'[c]]
      /\ UNCHANGED <<enqueuing_capacity, dequeuing_length, buffers_length,
                     buf_capacity, capacity, producer>>
  BY Zenon, <1>3 DEF InsertMore, InsertMorePanics
<1>8. /\ cells' \in [Buffer -> [Cell -> Element \cup {Uninit}]]
      /\ cells'[b] = InsertInto(cells[b], n, v, k)
      /\ buffers_length' \in [Buffer -> 0..MaxCapacity]
      /\ \A d \in Buffer \ {b} :
            cells'[d] = cells[d] /\ buffers_length'[d] = buffers_length[d]
  BY Zenon, <1>1, <1>2, <1>3, <1>6, <1>7
<1>9. CASE Counts(consumer'[c], v, k)
  <2>1. /\ consumer'[c] \in ConsumerRecord
        /\ consumer'[c].pc = "insert" /\ consumer'[c].index = b
        /\ consumer'[c].inserted = n + k
    <3>1. n + k \in 0..MaxCapacity
      BY <1>1, <1>4, <1>9
    <3>2. consumer'[c] = [t EXCEPT !.inserted = n + k]
      BY Zenon, <1>9
    <3> QED
      BY Zenon, <1>1, <3>1, <3>2 DEF ConsumerRecord
  <2>2. \A j \in Cell : cells'[b][j] # Uninit <=> (0 <= j /\ j < n + k)
    BY <1>1, <1>2, <1>4, <1>6, <1>8, <1>9 DEF Cell
  <2>3. ASSUME Other' = Other,
               Buf'[b] = [owed |-> {}, cells |-> cells'[b],
                          acked |-> buffers_length'[b],
                          capa |-> buf_capacity[b]]
        PROVE  ConsumerInv(c)'
    <3>1. Prepared(Buf'[b], n + k)
      BY <1>1, <1>4, <1>9, <2>2, <2>3 DEF Prepared, Settled
    <3>2. Buf'[b].acked = 0
      <4>1. Buf'[b].acked = buffers_length'[b]
        BY <2>3
      <4> QED
        BY Zenon, <1>1, <1>7, <4>1
    <3>3. /\ Prepared(Buf'[consumer'[c].index], consumer'[c].inserted)
          /\ Buf'[consumer'[c].index].acked = 0
          /\ consumer'[c].index = Other'
      BY Zenon, <1>1, <2>1, <2>3, <3>1, <3>2
    <3> QED
      BY Zenon, <2>1, <3>3 DEF ConsumerInv
  <2> QED
    BY Zenon, <1>1, <1>2, <1>7, <1>8, <2>1, <2>3, BufferStep
<1>10. CASE Panics(consumer'[c])
  <2>1. consumer'[c] = [t EXCEPT !.pc = "panicked"]
    BY Zenon, <1>10
  <2>2. /\ consumer'[c] \in ConsumerRecord
        /\ consumer'[c].pc = "panicked" /\ consumer'[c].index = b
    BY Zenon, <1>1, <2>1 DEF ConsumerRecord, ConsumerPc
  <2>3. ASSUME Other' = Other,
               Buf'[b] = [owed |-> {}, cells |-> cells'[b],
                          acked |-> buffers_length'[b],
                          capa |-> buf_capacity[b]]
        PROVE  ConsumerInv(c)'
    <3>1. Buf'[b].owed = {}
      BY <2>3
    <3>2. b = Other'
      BY Zenon, <1>1, <2>3
    <3> QED
      BY Zenon, <2>2, <3>1, <3>2 DEF ConsumerInv
  <2> QED
    BY Zenon, <1>1, <1>2, <1>7, <1>8, <2>2, <2>3, BufferStep
<1> QED
  BY Zenon, <1>3, <1>9, <1>10

\* The resize closure replaces a buffer nobody owes cells of, so producers do
\* not notice.
LEMMA ResizeOwed ==
    ASSUME IInv, NEW b \in Buffer, Owed[b] = {}, UNCHANGED producer,
           \A d \in Buffer \ {b} : /\ buf_capacity'[d] = buf_capacity[d]
                                   /\ cells'[d] = cells[d]
    PROVE  /\ Owed' = Owed
           /\ \A p \in Producers : ProducerInv(p)'
           /\ DisjointOwed'
<1>1. \A p \in Producers : Owes(p) =>
          /\ buf_capacity'[producer[p].seen.index]
                = buf_capacity[producer[p].seen.index]
          /\ cells'[producer[p].seen.index] = cells[producer[p].seen.index]
  <2>1. \A p \in Producers : producer[p].seen.index \in Buffer
    BY Zenon DEF IInv, TypeOK, EnqueuingWord
  <2> QED
    BY Zenon, <2>1, NobodyOwes DEF IInv
<1>2. \A p \in Producers : Owes(p)' <=> Owes(p)
  BY Zenon DEF Owes
<1>3. \A p \in Producers : Owes(p) => OwedCells(p)' = OwedCells(p)
  BY Zenon, <1>1 DEF OwedCells, InsertIndex
<1>4. Owed' = Owed
  BY <1>2, <1>3 DEF Owed
<1>5. ASSUME NEW p \in Producers PROVE ProducerInv(p)'
  <2>1. ProducerInv(p)
    BY Zenon DEF IInv
  <2> QED
    BY <1>1, <1>2, <1>3, <2>1 DEF ProducerInv, Owes
<1>6. DisjointOwed'
  BY Zenon, <1>2, <1>3 DEF IInv, DisjointOwed
<1> QED
  BY Zenon, <1>4, <1>5, <1>6

\* A buffer that holds no value, and of which nobody owes a cell, is ready for
\* the insertions of the resize closure.
LEMMA NewIsPrepared ==
    ASSUME NEW s, s.owed = {}, s.capa \in Nat,
           \A i \in Cell : s.cells[i] = Uninit
    PROVE  Prepared(s, 0)
<1>1. 0 \in 0..s.capa
  OBVIOUS
<1>2. \A i \in Cell : ~(0 <= i /\ i < 0)
  BY DEF Cell
<1> QED
  BY Zenon, <1>1, <1>2 DEF Prepared, Settled

\* The resize closure, up to its insertion loop.
LEMMA ResizeInv ==
    ASSUME IInv, NEW c \in Consumers, ResizeBuffer(c)
    PROVE  IInv'
<1> DEFINE t == consumer[c]
           b == t.index
           e == enqueuing_capacity.index
<1>1. /\ t \in ConsumerRecord /\ t.pc = "resize" /\ t.inserted = 0
      /\ b \in Buffer /\ b = Other /\ e \in Buffer /\ e # b
      /\ Prepared(Buf[b], 0) /\ Buf[b].acked = 0
      /\ Buf[b].owed = Owed[b] /\ Buf[b].cells = cells[b]
      /\ Buf[b].acked = buffers_length[b]
      /\ Buf[b].capa = buf_capacity[b]
      /\ buf_capacity[b] \in 0..MaxCapacity /\ MaxCapacity \in Nat
  <2>1. t \in ConsumerRecord /\ ConsumerInv(c) /\ t.pc = "resize"
    BY Zenon, HolderFacts DEF ResizeBuffer
  <2>2. b \in Buffer
    BY Zenon, <2>1 DEF ConsumerRecord
  <2>3. /\ Buf[b].owed = Owed[b] /\ Buf[b].cells = cells[b]
        /\ Buf[b].acked = buffers_length[b]
        /\ Buf[b].capa = buf_capacity[b] /\ MaxCapacity \in Nat
        /\ buf_capacity[b] \in 0..MaxCapacity
        /\ buffers_length[b] \in 0..MaxCapacity
        /\ e \in Buffer /\ Other # e
    BY Zenon, <2>2, HolderFacts
  <2>4. /\ Cardinality(Buf[b].owed) \in Nat
        /\ Cardinality(Buf[b].owed) = 0 <=> Buf[b].owed = {}
    BY Zenon, <2>2, <2>3, OwedFinite
  <2>5. Reserved(Buf[b], 0) /\ t.inserted = 0 /\ b = Other
    BY Zenon, <2>1 DEF ConsumerInv
  <2>6. Prepared(Buf[b], 0) /\ Buf[b].acked = 0
    BY <2>3, <2>4, <2>5, ReservedNoneIsPrepared
  <2> QED
    BY Zenon, <2>1, <2>2, <2>3, <2>5, <2>6
<1>2. /\ Owed[b] = {}
      /\ \A i \in Cell : cells[b][i] = Uninit
      /\ dequeuing_length = DEQUEUING_LOCKED
      /\ \A d \in Consumers \ {c} : consumer[d].pc = "idle"
  BY <1>1 DEF Prepared, Settled, Cell, IInv, LockIsExclusive
<1>3. PICK capa \in 0..MaxCapacity :
          /\ buf_capacity' = [buf_capacity EXCEPT ![b] = capa]
          /\ cells' = [cells EXCEPT ![b] =
                          IF capa # buf_capacity[b] THEN NewCells ELSE @]
          /\ consumer' = [consumer EXCEPT ![c] =
                             [[t EXCEPT !.pc = "insert"] EXCEPT
                                 !.resized = (capa # buf_capacity[b])]]
  BY Zenon, <1>1, QueueAssumption DEF ResizeBuffer, Goto, QueueAssumption
<1>4. UNCHANGED <<enqueuing_capacity, dequeuing_length, buffers_length,
                  capacity, producer>>
  BY Zenon DEF ResizeBuffer
<1>5. /\ buf_capacity' \in [Buffer -> 0..MaxCapacity]
      /\ buf_capacity'[b] = capa
      /\ cells' \in [Buffer -> [Cell -> Element \cup {Uninit}]]
      /\ \A i \in Cell : cells'[b][i] = Uninit
      /\ \A d \in Buffer \ {b} : /\ buf_capacity'[d] = buf_capacity[d]
                                 /\ cells'[d] = cells[d]
  <2>1. /\ buf_capacity \in [Buffer -> 0..MaxCapacity]
        /\ cells \in [Buffer -> [Cell -> Element \cup {Uninit}]]
    BY Zenon DEF IInv, TypeOK
  <2>2. /\ NewCells \in [Cell -> Element \cup {Uninit}]
        /\ \A i \in Cell : NewCells[i] = Uninit
    BY Zenon DEF NewCells
  <2> HIDE DEF b
  <2> QED
    BY Zenon, <1>1, <1>2, <1>3, <2>1, <2>2
<1>6. /\ Owed' = Owed
      /\ \A p \in Producers : ProducerInv(p)'
      /\ DisjointOwed'
  <2> HIDE DEF b
  <2> QED
    BY Zenon, <1>1, <1>2, <1>4, <1>5, ResizeOwed
<1>7. /\ consumer'[c] = [[t EXCEPT !.pc = "insert"] EXCEPT
                            !.resized = (capa # buf_capacity[b])]
      /\ \A d \in Consumers \ {c} : consumer'[d] = consumer[d]
  BY Zenon, <1>3 DEF IInv, TypeOK
<1>8. /\ consumer'[c] \in ConsumerRecord
      /\ consumer'[c].pc = "insert" /\ consumer'[c].index = b
      /\ consumer'[c].inserted = 0
  <2>1. (capa # buf_capacity[b]) \in BOOLEAN
    BY Zenon
  <2>2. "insert" \in ConsumerPc
    BY Zenon DEF ConsumerPc
  <2> QED
    BY Zenon, <1>1, <1>7, <2>1, <2>2 DEF ConsumerRecord
<1>9. TypeOK'
  <2>1. consumer' = [consumer EXCEPT ![c] = consumer'[c]]
    BY Zenon, <1>3, <1>7 DEF IInv, TypeOK
  <2>2. consumer' \in [Consumers -> ConsumerRecord]
    BY Zenon, <1>8, <2>1 DEF IInv, TypeOK, ConsumerRecord
  <2> QED
    BY Zenon, <1>4, <1>5, <2>2 DEF IInv, TypeOK, ConsumerRecord
<1>10. LockIsExclusive' /\ UnlockedInv'
  <2>1. consumer'[c].pc # "idle"
    BY Zenon, <1>8
  <2>2. \A d \in Consumers \ {c} : consumer'[d].pc = "idle"
    BY Zenon, <1>2, <1>7
  <2>3. dequeuing_length' = DEQUEUING_LOCKED
    BY Zenon, <1>2, <1>4
  <2> QED
    BY Zenon, <2>1, <2>2, <2>3 DEF LockIsExclusive, UnlockedInv
<1>11. EnqueuingInv' /\ CapacityIsPublished'
  <2>1. Buf'[e] = Buf[e]
    BY Zenon, <1>1, <1>4, <1>5, <1>6 DEF Buf
  <2>2. buf_capacity'[e] = buf_capacity[e]
    BY Zenon, <1>1, <1>5
  <2>3. \A d \in Consumers : consumer[d].pc # "notify"
    BY Zenon, <1>1, <1>2
  <2>4. EnqueuingInv'
    BY Zenon, <1>4, <2>1, <2>2 DEF IInv, EnqueuingInv
  <2>5. CapacityIsPublished'
    BY Zenon, <1>4, <2>2, <2>3 DEF IInv, CapacityIsPublished
  <2> QED
    BY Zenon, <2>4, <2>5
<1>12. ConsumerInv(c)'
  <2>1. Buf'[b] = [owed |-> {}, cells |-> cells'[b], acked |-> 0, capa |-> capa]
    <3>1. /\ Owed'[b] = {} /\ buffers_length'[b] = 0
          /\ buf_capacity'[b] = capa
      BY Zenon, <1>1, <1>2, <1>4, <1>5, <1>6
    <3> QED
      BY Zenon, <1>1, <3>1 DEF Buf
  <2>2. Prepared(Buf'[b], 0)
    <3>1. /\ Buf'[b].owed = {} /\ Buf'[b].capa = capa
          /\ Buf'[b].cells = cells'[b]
      BY <2>1
    <3>2. capa \in Nat
      BY <1>3
    <3> DEFINE s == Buf'[b]
    <3>3. /\ s.owed = {} /\ s.capa \in Nat
          /\ \A i \in Cell : s.cells[i] = Uninit
      BY Zenon, <1>5, <3>1, <3>2
    <3> HIDE DEF s
    <3>4. Prepared(s, 0)
      BY Zenon, <3>3, NewIsPrepared
    <3> QED
      BY Zenon, <3>4 DEF s
  <2>3. Other' = Other
    BY Zenon, <1>4 DEF Other
  <2>4. /\ Prepared(Buf'[consumer'[c].index], consumer'[c].inserted)
        /\ Buf'[consumer'[c].index].acked = 0
        /\ consumer'[c].index = Other'
    BY <1>1, <1>8, <2>1, <2>2, <2>3
  <2> QED
    BY Zenon, <1>8, <2>4 DEF ConsumerInv
<1>13. \A d \in Consumers : ConsumerInv(d)'
  BY <1>2, <1>7, <1>12, IdleConsumerInv
<1> QED
  BY Zenon, <1>6, <1>9, <1>10, <1>11, <1>13 DEF IInv

\* A step that changes no variable.
LEMMA StutterInv ==
    ASSUME IInv, UNCHANGED vars
    PROVE  IInv'
<1>1. UNCHANGED <<enqueuing_capacity, dequeuing_length, buffers_length,
                  buf_capacity, cells, capacity, producer, consumer>>
  BY Zenon DEF vars
<1>2. Owed' = Owed
  BY Zenon, <1>1, OwedUnchanged
<1>3. Buf' = Buf /\ Other' = Other
  BY Zenon, <1>1, <1>2 DEF Buf, Other
<1>4. TypeOK' /\ LockIsExclusive' /\ UnlockedInv' /\ CapacityIsPublished'
  BY Zenon, <1>1, <1>3
     DEF IInv, TypeOK, LockIsExclusive, UnlockedInv, CapacityIsPublished
<1>5. EnqueuingInv'
  BY Zenon, <1>1, <1>3 DEF IInv, EnqueuingInv
<1>6. (\A p \in Producers : ProducerInv(p)') /\ DisjointOwed'
  BY Zenon, <1>1, ProducersUnchanged
<1>7. ASSUME NEW d \in Consumers PROVE ConsumerInv(d)'
  <2>1. ConsumerInv(d)
    BY Zenon DEF IInv
  <2> QED
    BY Zenon, <1>1, <1>3, <2>1 DEF ConsumerInv
<1> QED
  BY Zenon, <1>4, <1>5, <1>6, <1>7 DEF IInv

\* lock_dequeuing: a conflict changes nothing; otherwise the caller takes
\* over what the word says of the dequeuing buffer.
LEMMA LockInv ==
    ASSUME IInv, NEW c \in Consumers, NEW pc \in {"load", "resize"},
           LockDequeuing(c, pc)
    PROVE  IInv'
<1>1. /\ consumer[c] \in ConsumerRecord /\ consumer[c].pc = "idle"
      /\ UNCHANGED <<enqueuing_capacity, buffers_length, buf_capacity, cells,
                     capacity, producer>>
      /\ dequeuing_length' = DEQUEUING_LOCKED
  BY Zenon, HolderFacts DEF LockDequeuing, buffer_vars
<1>2. Owed' = Owed
  BY Zenon, <1>1, OwedUnchanged
<1>3. Buf' = Buf /\ Other' = Other
  BY Zenon, <1>1, <1>2 DEF Buf, Other
<1>4. CASE dequeuing_length = DEQUEUING_LOCKED
  <2>1. UNCHANGED <<consumer, dequeuing_length>>
    BY Zenon, <1>1, <1>4 DEF LockDequeuing, IInv, TypeOK
  <2> QED
    BY Zenon, <1>1, <2>1, StutterInv DEF vars
<1>5. CASE dequeuing_length # DEQUEUING_LOCKED
  <2> DEFINE b == dequeuing_length.index
             n == dequeuing_length.length
             to == IF n > 0 THEN "spin" ELSE pc
  <2>1. /\ b \in Buffer /\ n \in 0..MaxCapacity /\ n \in Nat
        /\ b = Other /\ IsDue(Buf[b], n)
        /\ \A d \in Consumers : consumer[d].pc = "idle"
        /\ MaxCapacity \in Nat /\ NoWord \in EnqueuingWord
    <3>1. dequeuing_length \in DequeuingWord
      BY Zenon, <1>5 DEF IInv, TypeOK
    <3>2. b = Other /\ IsDue(Buf[b], n)
      BY Zenon, <1>5 DEF IInv, UnlockedInv
    <3>3. \A d \in Consumers : consumer[d].pc = "idle"
      BY Zenon, <1>5 DEF IInv, LockIsExclusive
    <3>4. MaxCapacity \in Nat /\ NoWord \in EnqueuingWord
      BY Zenon, HolderFacts
    <3> QED
      BY <3>1, <3>2, <3>3, <3>4 DEF DequeuingWord
  <2>2. /\ consumer' = [consumer EXCEPT ![c] = At(to, b, n)]
        /\ consumer'[c] = At(to, b, n)
        /\ \A d \in Consumers \ {c} : consumer'[d] = consumer[d]
    BY Zenon, <1>5 DEF LockDequeuing, IInv, TypeOK
  <2>3. to \in {"spin", "load", "resize"} /\ to \in ConsumerPc
    BY Zenon DEF ConsumerPc
  <2> HIDE DEF to
  <2>4. /\ consumer'[c] \in ConsumerRecord
        /\ consumer'[c].pc = to /\ consumer'[c].index = b
        /\ consumer'[c].length = n /\ consumer'[c].inserted = 0
    BY <2>1, <2>2, <2>3 DEF At, ConsumerRecord
  <2>5. TypeOK'
    <3>1. consumer' \in [Consumers -> ConsumerRecord]
      BY Zenon, <2>2, <2>4 DEF IInv, TypeOK, ConsumerRecord
    <3> QED
      BY Zenon, <1>1, <3>1 DEF IInv, TypeOK, ConsumerRecord
  <2>6. LockIsExclusive' /\ UnlockedInv'
    <3>1. consumer'[c].pc # "idle"
      BY Zenon, <2>3, <2>4
    <3>2. \A d \in Consumers \ {c} : consumer'[d].pc = "idle"
      BY Zenon, <2>1, <2>2
    <3> QED
      BY Zenon, <1>1, <3>1, <3>2 DEF LockIsExclusive, UnlockedInv
  <2>7. EnqueuingInv' /\ CapacityIsPublished'
    <3>1. \A d \in Consumers : consumer[d].pc # "notify"
      BY Zenon, <2>1
    <3> QED
      BY Zenon, <1>1, <1>3, <3>1 DEF IInv, EnqueuingInv, CapacityIsPublished
  <2>8. (\A p \in Producers : ProducerInv(p)') /\ DisjointOwed'
    BY Zenon, <1>1, ProducersUnchanged
  <2>9. n = 0 => Reserved(Buf[b], 0) /\ Prepared(Buf[b], 0) /\ Buf[b].acked = 0
    <3> SUFFICES ASSUME n = 0
                 PROVE  Reserved(Buf[b], 0) /\ Prepared(Buf[b], 0)
                        /\ Buf[b].acked = 0
      BY Zenon
    <3>1. Reserved(Buf[b], 0)
      BY <2>1 DEF IsDue, Drained
    <3>2. /\ Buf[b].acked \in Nat /\ Buf[b].capa \in Nat
          /\ Cardinality(Buf[b].owed) \in Nat
          /\ Cardinality(Buf[b].owed) = 0 <=> Buf[b].owed = {}
      BY <2>1, HolderFacts, OwedFinite
    <3> QED
      BY Zenon, <3>1, <3>2, ReservedNoneIsPrepared
  <2>10. ConsumerInv(c)'
    <3>1. consumer'[c].index = Other' /\ Buf'[consumer'[c].index] = Buf[b]
      BY Zenon, <1>3, <2>1, <2>4
    <3>2. CASE n > 0
      <4>1. to = "spin"
        BY Zenon, <3>2 DEF to
      <4> QED
        BY Zenon, <2>1, <2>4, <3>1, <3>2, <4>1 DEF ConsumerInv
    <3>3. CASE n = 0
      <4>1. to = pc
        BY <3>3 DEF to
      <4>2. Reserved(Buf[b], 0) /\ Prepared(Buf[b], 0) /\ Buf[b].acked = 0
        BY Zenon, <2>9, <3>3
      <4> QED
        BY Zenon, <2>4, <3>1, <4>1, <4>2 DEF ConsumerInv
    <3> QED
      BY <2>1, <3>2, <3>3
  <2>11. \A d \in Consumers : ConsumerInv(d)'
    BY Zenon, <2>1, <2>2, <2>10, IdleConsumerInv
  <2> QED
    BY Zenon, <2>5, <2>6, <2>7, <2>8, <2>11 DEF IInv
<1> QED
  BY Zenon, <1>4, <1>5

-----------------------------------------------------------------------------
(* The inductive invariant holds.                                          *)

\* A new queue (with_capacity): every cell is free and nobody owes any.
LEMMA InitInv == Init => IInv
<1> SUFFICES ASSUME Init PROVE IInv
  BY Zenon
<1>1. /\ MaxCapacity \in Nat /\ InitCapacity \in 0..MaxCapacity
      /\ NoWord \in EnqueuingWord
  BY QueueAssumption DEF QueueAssumption, NoWord, EnqueuingCapacity,
     EnqueuingWord, Buffer
<1>2. /\ enqueuing_capacity = [index |-> 0, remaining |-> InitCapacity,
                               closed |-> FALSE]
      /\ dequeuing_length = [index |-> 1, length |-> 0]
      /\ dequeuing_length # DEQUEUING_LOCKED
      /\ buffers_length = [b \in Buffer |-> 0]
      /\ buf_capacity = [b \in Buffer |-> InitCapacity]
      /\ cells = [b \in Buffer |-> NewCells]
      /\ capacity = InitCapacity
      /\ producer = [p \in Producers |-> IdleProducer]
      /\ consumer = [c \in Consumers |-> IdleConsumer]
  BY DEF Init, EnqueuingCapacity, DequeuingLength, DEQUEUING_LOCKED
<1>3. /\ \A p \in Producers : producer[p].pc = "idle" /\ ~Owes(p)
      /\ \A c \in Consumers : consumer[c].pc = "idle"
  BY Zenon, <1>2 DEF IdleProducer, IdleConsumer, At, Owes
<1>4. TypeOK
  <2>1. IdleProducer \in [pc : ProducerPc, value : Values \cup {<<>>},
                          seen : EnqueuingWord]
    BY Zenon, <1>1 DEF IdleProducer, ProducerPc
  <2>2. IdleConsumer \in ConsumerRecord
    BY <1>1 DEF IdleConsumer, At, ConsumerRecord, ConsumerPc, Buffer
  <2>3. NewCells \in [Cell -> Element \cup {Uninit}]
    BY Zenon DEF NewCells
  <2>4. /\ enqueuing_capacity \in EnqueuingWord
        /\ dequeuing_length \in DequeuingWord
    BY <1>1, <1>2 DEF EnqueuingWord, DequeuingWord, Buffer
  <2> QED
    BY <1>1, <1>2, <2>1, <2>2, <2>3, <2>4 DEF TypeOK, ConsumerRecord
<1>5. Owed = [b \in Buffer |-> {}]
  BY Zenon, <1>3 DEF Owed
<1>6. ASSUME NEW b \in Buffer PROVE Reserved(Buf[b], 0)
  <2>1. Buf[b] = [owed |-> {}, cells |-> NewCells, acked |-> 0,
                  capa |-> InitCapacity]
    BY Zenon, <1>2, <1>5 DEF Buf
  <2> QED
    BY <1>1, <2>1, FS_EmptySet DEF Reserved, NewCells, Cell
<1>7. EnqueuingInv /\ CapacityIsPublished
  <2>1. buf_capacity[enqueuing_capacity.index]
            - enqueuing_capacity.remaining = 0
    BY <1>1, <1>2 DEF Buffer
  <2>2. enqueuing_capacity.index \in Buffer
    BY Zenon, <1>2 DEF Buffer
  <2> QED
    BY Zenon, <1>2, <1>6, <2>1, <2>2 DEF EnqueuingInv, CapacityIsPublished
<1>8. LockIsExclusive /\ UnlockedInv
  <2>1. LockIsExclusive
    BY Zenon, <1>2, <1>3 DEF LockIsExclusive
  <2>2. /\ dequeuing_length.index = Other /\ dequeuing_length.index \in Buffer
        /\ dequeuing_length.length = 0
    BY <1>2 DEF Other, Buffer
  <2> QED
    BY Zenon, <1>6, <2>1, <2>2 DEF UnlockedInv, IsDue
<1>9. (\A p \in Producers : ProducerInv(p)) /\ DisjointOwed
  BY Zenon, <1>3 DEF ProducerInv, DisjointOwed
<1>10. \A c \in Consumers : ConsumerInv(c)
  BY Zenon, <1>3 DEF ConsumerInv
<1> QED
  BY Zenon, <1>4, <1>7, <1>8, <1>9, <1>10 DEF IInv

\* Every step of every thread preserves the invariant: one case per action.
LEMMA NextInv == IInv /\ [Next]_vars => IInv'
<1> SUFFICES ASSUME IInv, [Next]_vars PROVE IInv'
  BY Zenon
<1>1. ASSUME NEW p \in Producers, Produce(p) PROVE IInv'
  BY Zenon, <1>1, TryEnqueueInv, ReserveCellsInv, InsertValueInv,
     AcknowledgeInv
     DEF Produce
<1>2. ASSUME NEW c \in Consumers, Dequeue(c) PROVE IInv'
  <2>1. CASE TryDequeue(c)
    BY Zenon, <2>1, LockInv DEF TryDequeue
  <2>2. CASE LoadEnqueuing(c) \/ SwapRetry(c)
    BY Zenon, <2>2, LoadInv
  <2>3. CASE SwapBuffers(c)
    BY Zenon, <2>3, SwapInv
  <2>4. CASE PublishCapacity(c)
    BY Zenon, <2>4, PublishInv
  <2>5. CASE TakeSlice(c) \/ GiveUpSpinning(c)
    BY Zenon, <2>5, SpinInv
  <2>6. CASE StoreDequeuing(c)
    BY Zenon, <2>6, StoreInv
  <2> QED
    BY Zenon, <1>2, <2>1, <2>2, <2>3, <2>4, <2>5, <2>6 DEF Dequeue
<1>3. ASSUME NEW c \in Consumers, Resize(c) PROVE IInv'
  <2>1. CASE TryDequeueAndResize(c)
    BY Zenon, <2>1, LockInv DEF TryDequeueAndResize
  <2> QED
    BY Zenon, <1>3, <2>1, ResizeInv, InsertMoreInv, InsertDoneInv DEF Resize
<1>4. ASSUME NEW c \in Consumers, UseHandle(c) PROVE IInv'
  BY Zenon, <1>4, ReleaseInv, StoreInv, HandleSwitchInv, NextValueInv
     DEF UseHandle
<1>5. CASE Close \/ Reopen
  BY Zenon, <1>5, CloseInv
<1>6. CASE UNCHANGED vars
  BY Zenon, <1>6, StutterInv
<1> QED
  BY Zenon, <1>1, <1>2, <1>3, <1>4, <1>5, <1>6 DEF Next

\* IInv holds in every reachable state, for any threads, values, capacities
\* and interleaving.
THEOREM Invariance == Spec => []IInv
  BY InitInv, NextInv, PTL DEF Spec

-----------------------------------------------------------------------------
(* What it implies.                                                        *)

\* Every word, counter, cell and program counter stays in its range: no
\* counter of the code goes below zero or above a capacity.
THEOREM TypeCorrect == Spec => []TypeOK
  BY Invariance, PTL DEF IInv

\* lock_dequeuing is a lock: at most one call or handle is past it.
THEOREM MutualExclusion == Spec => []LockIsExclusive
  BY Invariance, PTL DEF IInv

\* Queue::capacity() is right outside the window after a swap.
THEOREM CapacityPublished == Spec => []CapacityIsPublished
  BY Invariance, PTL DEF IInv

\* The buffer of a consumer that has it as &mut is settled.
LEMMA MutIsSettled ==
    ASSUME IInv, NEW c \in Consumers, HasMut(c)
    PROVE  /\ consumer[c].index \in Buffer
           /\ consumer[c].index = Other
           /\ Owed[consumer[c].index] = {}
           /\ Buf[consumer[c].index].cells = cells[consumer[c].index]
           /\ Buf[consumer[c].index].acked = buffers_length[consumer[c].index]
<1> DEFINE b == consumer[c].index
<1>1. consumer[c] \in ConsumerRecord /\ ConsumerInv(c)
  BY Zenon, HolderFacts
<1>2. b \in Buffer
  BY Zenon, <1>1 DEF ConsumerRecord
<1>3. /\ Buf[b].owed = Owed[b] /\ Buf[b].cells = cells[b]
      /\ Buf[b].acked = buffers_length[b] /\ buffers_length[b] \in Nat
      /\ buf_capacity[b] \in Nat /\ Buf[b].capa = buf_capacity[b]
      /\ Cardinality(Buf[b].owed) \in Nat
      /\ Cardinality(Buf[b].owed) = 0 <=> Buf[b].owed = {}
  BY <1>2, HolderFacts, OwedFinite
<1>4. b = Other
  BY Zenon, <1>1 DEF ConsumerInv, HasMut
<1>5. Buf[b].owed = {}
  <2>1. CASE consumer[c].pc = "resize"
    <3>1. Reserved(Buf[b], 0)
      BY Zenon, <1>1, <2>1 DEF ConsumerInv
    <3> QED
      BY Zenon, <1>3, <3>1, ReservedNoneIsPrepared DEF Prepared, Settled
  <2>2. CASE consumer[c].pc \in {"insert", "slice", "iter"}
    BY Zenon, <1>1, <2>2 DEF ConsumerInv, Prepared, Settled
  <2> QED
    BY Zenon, <2>1, <2>2 DEF HasMut
<1> QED
  BY Zenon, <1>2, <1>3, <1>4, <1>5

\* No data race on a buffer: while a consumer has it as &mut, producers
\* neither reserve in it nor still write or acknowledge cells of it.
THEOREM NoSharedAccess == Spec => []ExclusiveAccess
<1>1. IInv => ExclusiveAccess
  <2> SUFFICES ASSUME IInv, NEW c \in Consumers, HasMut(c)
               PROVE  /\ consumer[c].index # enqueuing_capacity.index
                      /\ \A p \in Producers : Owes(p) =>
                            producer[p].seen.index # consumer[c].index
    BY Zenon DEF ExclusiveAccess
  <2>1. /\ consumer[c].index \in Buffer /\ consumer[c].index = Other
        /\ Owed[consumer[c].index] = {}
    BY Zenon, MutIsSettled
  <2>2. Other # enqueuing_capacity.index
    BY Zenon, HolderFacts
  <2> QED
    BY Zenon, <2>1, <2>2, NobodyOwes DEF IInv
<1> QED
  BY <1>1, Invariance, PTL

\* A slice or iterator only reaches cells that hold a value.
THEOREM SlicesInitialized == Spec => []SliceIsInitialized
<1>1. IInv => SliceIsInitialized
  <2> SUFFICES ASSUME IInv, NEW c \in Consumers, HasSlice(c),
                      NEW i \in consumer[c].start..
                             (consumer[c].start + consumer[c].length - 1)
               PROVE  cells[consumer[c].index][i] # Uninit
    BY Zenon DEF SliceIsInitialized
  <2> DEFINE b == consumer[c].index
             lo == consumer[c].start
             hi == consumer[c].start + consumer[c].length
  <2>1. consumer[c] \in ConsumerRecord /\ ConsumerInv(c) /\ MaxCapacity \in Nat
    BY Zenon, HolderFacts
  <2>2. b \in Buffer /\ lo \in Nat /\ consumer[c].length \in Nat
    BY <2>1 DEF ConsumerRecord
  <2>3. /\ Buf[b].acked = hi /\ Settled(Buf[b], lo, hi)
    BY Zenon, <2>1 DEF ConsumerInv, HasSlice
  <2>4. Buf[b].cells = cells[b] /\ Buf[b].acked \in 0..MaxCapacity
    BY Zenon, <2>2, HolderFacts
  <2>5. hi \in 0..MaxCapacity
    BY Zenon, <2>3, <2>4
  <2>6. i \in Cell /\ lo <= i /\ i < hi
    BY <2>1, <2>2, <2>5 DEF Cell
  <2> QED
    BY Zenon, <2>3, <2>4, <2>6 DEF Settled
<1> QED
  BY <1>1, Invariance, PTL

\* A producer writes free cells, inside the buffer, that are its own.
THEOREM InsertsSafe == Spec => []InsertIsSafe
<1>1. IInv => InsertIsSafe
  <2> SUFFICES ASSUME IInv, NEW p \in Producers, producer[p].pc = "insert"
               PROVE  /\ OwedCells(p) \subseteq
                             0..(buf_capacity[producer[p].seen.index] - 1)
                      /\ \A i \in OwedCells(p) :
                             cells[producer[p].seen.index][i] = Uninit
                      /\ \A q \in Producers \ {p} :
                             /\ Owes(q)
                             /\ producer[q].seen.index = producer[p].seen.index
                             => OwedCells(p) \cap OwedCells(q) = {}
    BY Zenon DEF InsertIsSafe
  <2>1. TypeOK /\ Owes(p) /\ ProducerInv(p) /\ DisjointOwed
    BY Zenon DEF IInv, Owes
  <2>2. /\ Len(producer[p].value) \in Nat /\ InsertIndex(p) \in Nat
        /\ InsertIndex(p) + Len(producer[p].value)
              <= buf_capacity[producer[p].seen.index]
    BY Zenon, <2>1, OwedCellsFacts
  <2>3. buf_capacity[producer[p].seen.index] \in Nat
    <3>1. producer[p].seen.index \in Buffer
      BY Zenon, <2>1 DEF TypeOK, EnqueuingWord
    <3> QED
      BY <2>1, <3>1, QueueAssumption DEF TypeOK, QueueAssumption
  <2>4. OwedCells(p) \subseteq 0..(buf_capacity[producer[p].seen.index] - 1)
    BY <2>2, <2>3 DEF OwedCells
  <2>5. \A i \in OwedCells(p) : cells[producer[p].seen.index][i] = Uninit
    BY Zenon, <2>1 DEF ProducerInv
  <2> QED
    BY Zenon, <2>1, <2>4, <2>5 DEF DisjointOwed
<1> QED
  BY <1>1, Invariance, PTL

\* The buffer a resize closure replaces holds nothing.
THEOREM ResizeSafe == Spec => []ResizeLosesNothing
<1>1. IInv => ResizeLosesNothing
  <2> SUFFICES ASSUME IInv, NEW c \in Consumers, consumer[c].pc = "resize"
               PROVE  /\ cells[consumer[c].index] = NewCells
                      /\ buffers_length[consumer[c].index] = 0
    BY Zenon DEF ResizeLosesNothing
  <2> DEFINE b == consumer[c].index
  <2>1. b \in Buffer /\ Owed[b] = {} /\ Buf[b].cells = cells[b]
        /\ Buf[b].acked = buffers_length[b]
    BY Zenon, MutIsSettled DEF HasMut
  <2>2. Reserved(Buf[b], 0)
    BY Zenon, HolderFacts DEF ConsumerInv
  <2>3. /\ Buf[b].acked \in Nat /\ Buf[b].capa \in Nat
        /\ Cardinality(Buf[b].owed) \in Nat
        /\ Cardinality(Buf[b].owed) = 0 <=> Buf[b].owed = {}
    BY <2>1, HolderFacts, OwedFinite
  <2>4. Prepared(Buf[b], 0) /\ Buf[b].acked = 0
    BY Zenon, <2>2, <2>3, ReservedNoneIsPrepared
  <2>5. \A i \in Cell : cells[b][i] = Uninit
    BY <2>1, <2>4 DEF Prepared, Settled, Cell
  <2>6. cells[b] \in [Cell -> Element \cup {Uninit}]
    BY Zenon, <2>1 DEF IInv, TypeOK
  <2>7. cells[b] = NewCells
    BY Zenon, <2>5, <2>6 DEF NewCells
  <2> QED
    BY Zenon, <2>1, <2>4, <2>7
<1> QED
  BY <1>1, Invariance, PTL

\* The debug assertions of try_dequeue_internal never fire.
THEOREM DebugAssertsHold == Spec => []DebugAsserts
<1>1. IInv => DebugAsserts
  <2> SUFFICES ASSUME IInv, NEW c \in Consumers
               PROVE  /\ consumer[c].pc = "load" =>
                             consumer[c].index # enqueuing_capacity.index
                      /\ consumer[c].pc = "notify" /\ SwappedLength(c) = 0
                             /\ consumer[c].inserted = 0 => consumer[c].resized
    BY Zenon DEF DebugAsserts
  <2>1. /\ consumer[c] \in ConsumerRecord /\ ConsumerInv(c)
        /\ Other # enqueuing_capacity.index /\ MaxCapacity \in Nat
    BY Zenon, HolderFacts
  <2>2. consumer[c].pc = "load" => consumer[c].index # enqueuing_capacity.index
    BY Zenon, <2>1 DEF ConsumerInv
  <2>3. ASSUME consumer[c].pc = "notify", SwappedLength(c) = 0,
               consumer[c].inserted = 0
        PROVE  consumer[c].resized
    <3>1. /\ consumer[c].seen.index \in Buffer
          /\ consumer[c].seen.remaining \in Nat
      BY <2>1 DEF ConsumerRecord, EnqueuingWord
    <3>2. buf_capacity[consumer[c].seen.index] \in Nat
      BY <2>1, <3>1, HolderFacts
    <3>3. consumer[c].seen.remaining = buf_capacity[consumer[c].seen.index]
      BY <2>3, <3>1, <3>2 DEF SwappedLength
    <3>4. WorthSwapping(consumer[c], buf_capacity[consumer[c].seen.index])
      BY Zenon, <2>1, <2>3 DEF ConsumerInv
    <3> QED
      BY <2>3, <3>2, <3>3, <3>4 DEF WorthSwapping
  <2> QED
    BY Zenon, <2>2, <2>3
<1> QED
  BY <1>1, Invariance, PTL

\* The length acknowledged in a buffer falls short of the length a consumer
\* waits for only because of a producer.
LEMMA PendingHasProducer == IInv => PendingIsTrue
<1> SUFFICES ASSUME IInv, NEW c \in Consumers,
                    consumer[c].pc = "spin", ~SpinDone(c)
             PROVE  \E p \in Producers :
                        Owes(p) /\ producer[p].seen.index = consumer[c].index
  BY Zenon DEF PendingIsTrue
<1> DEFINE b == consumer[c].index
           n == consumer[c].length
<1>1. consumer[c] \in ConsumerRecord /\ ConsumerInv(c) /\ MaxCapacity \in Nat
  BY Zenon, HolderFacts
<1>2. b \in Buffer /\ n \in Nat
  BY <1>1 DEF ConsumerRecord
<1>3. /\ Buf[b].owed = Owed[b] /\ Buf[b].acked = buffers_length[b]
      /\ buffers_length[b] \in Nat /\ buf_capacity[b] \in Nat
      /\ Buf[b].capa = buf_capacity[b]
      /\ Cardinality(Buf[b].owed) \in Nat
      /\ Cardinality(Buf[b].owed) = 0 <=> Buf[b].owed = {}
  <2>1. Buf[b].owed = Owed[b]
    BY Zenon, <1>2, HolderFacts
  <2>2. /\ Cardinality(Buf[b].owed) \in Nat
        /\ Cardinality(Buf[b].owed) = 0 <=> Buf[b].owed = {}
    BY Zenon, <1>2, <2>1, OwedFinite
  <2>3. /\ buffers_length[b] \in 0..MaxCapacity
        /\ buf_capacity[b] \in 0..MaxCapacity
        /\ Buf[b].acked = buffers_length[b] /\ Buf[b].capa = buf_capacity[b]
    BY Zenon, <1>2, HolderFacts
  <2>4. buffers_length[b] \in Nat /\ buf_capacity[b] \in Nat
    BY <1>1, <2>3
  <2> QED
    BY Zenon, <2>1, <2>2, <2>3, <2>4
<1>4. IsDue(Buf[b], n) /\ buffers_length[b] < n
  <2>1. IsDue(Buf[b], n)
    BY Zenon, <1>1 DEF ConsumerInv
  <2>2. buffers_length[b] < n
    BY <1>2, <1>3 DEF SpinDone
  <2> QED
    BY Zenon, <2>1, <2>2
<1>5. ~Drained(Buf[b], n)
  <2>1. Drained(Buf[b], n) => buffers_length[b] \in n..buf_capacity[b]
    BY Zenon, <1>3 DEF Drained
  <2> QED
    BY <1>2, <1>3, <1>4, <2>1
<1>6. Owed[b] # {}
  <2>1. buffers_length[b] + Cardinality(Buf[b].owed) = n
    BY Zenon, <1>3, <1>4, <1>5 DEF IsDue, Reserved
  <2>2. Cardinality(Buf[b].owed) # 0
    BY <1>2, <1>3, <1>4, <2>1
  <2> QED
    BY Zenon, <1>3, <2>2
<1> QED
  BY Zenon, <1>2, <1>6 DEF Owed

\* A Pending answer is always due to a producer that has not finished.
THEOREM PendingJustified == Spec => []PendingIsTrue
  BY PendingHasProducer, Invariance, PTL

\* A swap or a reservation racing close() never clears the closed flag.
THEOREM ReopenOnly == Spec => OnlyReopenReopens
<1> DEFINE Opens == enqueuing_capacity.closed /\ ~enqueuing_capacity'.closed
<1>1. IInv /\ [Next]_vars => [Opens => Reopen]_vars
  <2> SUFFICES ASSUME IInv, Next, Opens PROVE Reopen
    BY Zenon DEF vars
  <2>1. enqueuing_capacity \in EnqueuingWord
    BY Zenon DEF IInv, TypeOK
  <2>2. ASSUME NEW p \in Producers, Produce(p) PROVE FALSE
    <3>1. CASE ReserveCells(p)
      <4>1. enqueuing_capacity'.closed = enqueuing_capacity.closed
        BY Zenon, <2>1, <3>1 DEF ReserveCells, TryReserve, EnqueuingWord
      <4> QED
        BY Zenon, <4>1
    <3>2. CASE UNCHANGED enqueuing_capacity
      BY Zenon, <3>2
    <3> QED
      BY Zenon, <2>2, <3>1, <3>2
         DEF Produce, TryEnqueue, RetryReserve, InsertValue,
         InsertPanics, Acknowledge
  <2>3. ASSUME NEW c \in Consumers, Dequeue(c) \/ Resize(c) \/ UseHandle(c)
        PROVE  FALSE
    <3>1. CASE SwapBuffers(c)
      <4>1. enqueuing_capacity'.closed = enqueuing_capacity.closed
        BY Zenon, <3>1 DEF SwapBuffers, WithClosed, EnqueuingCapacity
      <4> QED
        BY Zenon, <4>1
    <3>2. CASE UNCHANGED enqueuing_capacity
      BY Zenon, <3>2
    <3> QED
      BY Zenon, <2>3, <3>1, <3>2 DEF Dequeue, Resize, UseHandle, TryDequeue,
         TryDequeueAndResize, LockDequeuing, LoadEnqueuing, SwapRetry,
         PublishCapacity, TakeSlice, GiveUpSpinning, StoreDequeuing,
         ResizeBuffer, InsertMore, InsertMorePanics, InsertDone, Release,
         Requeue, IntoIter, IntoSlice, NextValue
  <2>4. CASE Close
    BY Zenon, <2>1, <2>4 DEF Close, SetClosed, EnqueuingWord
  <2> QED
    BY Zenon, <2>2, <2>3, <2>4 DEF Next
<1> QED
  BY <1>1, Invariance, PTL DEF Spec, OnlyReopenReopens

-----------------------------------------------------------------------------
(* Queue::drop.                                                            *)

\* drop makes no access a try_dequeue and its slice do not make.
LEMMA DropIsDequeue == [NextDrop]_drop_vars => [Next]_vars
  BY Zenon DEF NextDrop, drop_vars, Use, Drop, DropStep, DropDone, Next,
               Dequeue, UseHandle, TryDequeue

\* The queue, its destructor included, is a Queue: all that is proved of Spec
\* holds until the buffers are freed.
THEOREM DropRefinesQueue == SpecDrop => Spec
<1>1. InitDrop => Init
  BY Zenon DEF InitDrop
<1> QED
  BY <1>1, DropIsDequeue, PTL DEF SpecDrop, Spec

\* A buffer with no reserved cell holds no value.
LEMMA ReservedNoneIsNew ==
    ASSUME IInv, NEW b \in Buffer, Reserved(Buf[b], 0)
    PROVE  cells[b] = NewCells
<1>1. /\ Buf[b].owed = Owed[b] /\ Buf[b].cells = cells[b]
      /\ Buf[b].acked = buffers_length[b] /\ Buf[b].capa = buf_capacity[b]
  BY Zenon DEF Buf
<1>2. /\ Cardinality(Buf[b].owed) \in Nat
      /\ Cardinality(Buf[b].owed) = 0 <=> Buf[b].owed = {}
  BY Zenon, <1>1, OwedFinite
<1>3. Buf[b].acked \in Nat /\ Buf[b].capa \in Nat
  <2>1. /\ buffers_length[b] \in 0..MaxCapacity
        /\ buf_capacity[b] \in 0..MaxCapacity
    BY Zenon DEF IInv, TypeOK
  <2> QED
    BY <1>1, <2>1, QueueAssumption DEF QueueAssumption
<1>4. Prepared(Buf[b], 0)
  BY Zenon, <1>2, <1>3, ReservedNoneIsPrepared
<1>5. \A i \in Cell : cells[b][i] = Uninit
  BY <1>1, <1>4 DEF Prepared, Settled, Cell
<1>6. cells[b] \in [Cell -> Element \cup {Uninit}]
  BY Zenon DEF IInv, TypeOK
<1> QED
  BY Zenon, <1>5, <1>6 DEF NewCells

-----------------------------------------------------------------------------
(* DropInv.                                                                *)

\* Who has unwound never returns.
LEMMA PanicIsFinal ==
    ASSUME NEW c \in Consumers, ~Panicked', TypeOK,
           Drop(c) \/ DropStep(c) \/ DropDone(c)
    PROVE  /\ ~Panicked
           /\ producer' = producer
           /\ \A d \in Consumers \ {c} : consumer'[d] = consumer[d]
<1>1. /\ producer' = producer
      /\ consumer[c].pc \in {"idle", "load", "swap", "notify", "spin", "slice",
                             "iter", "store"}
  BY Zenon DEF Drop, DropStep, DropDone, LockDequeuing, LoadEnqueuing,
     SwapBuffers, PublishCapacity, TakeSlice, GiveUpSpinning, Release,
     StoreDequeuing
<1>2. consumer[c].pc # "panicked"
  BY Zenon, <1>1
<1>3. \A d \in Consumers \ {c} : consumer'[d] = consumer[d]
  <2>1. CASE Drop(c)
    BY Zenon, <2>1 DEF TypeOK, Drop, LockDequeuing
  <2>2. CASE LoadEnqueuing(c)
    BY Zenon, <2>2 DEF TypeOK, LoadEnqueuing
  <2>3. CASE SwapBuffers(c)
    BY Zenon, <2>3 DEF TypeOK, SwapBuffers
  <2>4. CASE PublishCapacity(c)
    BY Zenon, <2>4 DEF TypeOK, PublishCapacity
  <2>5. CASE TakeSlice(c)
    BY Zenon, <2>5 DEF TypeOK, TakeSlice
  <2>6. CASE GiveUpSpinning(c)
    BY Zenon, <2>6 DEF TypeOK, GiveUpSpinning
  <2>7. CASE Release(c)
    BY Zenon, <2>7 DEF TypeOK, Release
  <2>8. CASE DropDone(c)
    BY Zenon, <2>8 DEF TypeOK, DropDone, StoreDequeuing
  <2> QED
    BY Zenon, <2>1, <2>2, <2>3, <2>4, <2>5, <2>6, <2>7, <2>8 DEF DropStep
<1> QED
  BY Zenon, <1>1, <1>2, <1>3 DEF Panicked

\* The call made by drop begins, or is refused because the queue is locked
\* for good by a call that unwound.
LEMMA DropCallInv ==
    ASSUME IInv, NEW c \in Consumers, Drop(c)
    PROVE  DropInv'
<1>1. /\ producer' = producer /\ dequeuing_length' = DEQUEUING_LOCKED
      /\ consumer[c].pc = "idle"
      /\ \A d \in Consumers : consumer[d].pc \in {"idle", "panicked"}
      /\ \A p \in Producers : producer[p].pc \in {"idle", "panicked"}
  BY Zenon DEF Drop, LockDequeuing, Unborrowed
<1>2. consumer \in [Consumers -> ConsumerRecord]
  BY Zenon DEF IInv, TypeOK, ConsumerRecord
<1>3. CASE dequeuing_length = DEQUEUING_LOCKED
  <2>1. consumer' = consumer
    BY Zenon, <1>2, <1>3 DEF Drop, LockDequeuing
  <2>2. PICK d \in Consumers : consumer[d].pc # "idle"
    BY Zenon, <1>3 DEF IInv, LockIsExclusive
  <2>3. Panicked'
    BY Zenon, <1>1, <2>1, <2>2 DEF Panicked
  <2> QED
    BY Zenon, <1>1, <2>3 DEF DropInv
<1>4. CASE dequeuing_length # DEQUEUING_LOCKED
  <2> DEFINE due == dequeuing_length.length > 0
             pc == IF due THEN "spin" ELSE "load"
  <2>1. /\ stage' = "drop"
        /\ due => requeued'
        /\ consumer' = [consumer EXCEPT ![c] =
               At(pc, dequeuing_length.index, dequeuing_length.length)]
    BY Zenon, <1>4 DEF Drop, LockDequeuing
  <2>2. /\ due => consumer'[c].pc = "spin"
        /\ ~due => consumer'[c].pc = "load"
        /\ consumer'[c].inserted = 0
        /\ \A d \in Consumers \ {c} : consumer'[d] = consumer[d]
    BY Zenon, <1>2, <2>1 DEF At
  <2> HIDE DEF due
  <2>3. \A d \in Consumers : consumer[d].pc = "idle"
    BY Zenon, <1>4 DEF IInv, LockIsExclusive
  <2>4. Dropping(c)'
    <3>1. CASE due
      BY Zenon, <2>1, <2>2, <3>1 DEF Dropping
    <3>2. CASE ~due
      BY Zenon, <2>1, <2>2, <3>2 DEF Dropping
    <3> QED
      BY Zenon, <3>1, <3>2
  <2>5. \A d \in Consumers : consumer'[d].pc # "idle" => d = c
    <3>1. \A d \in Consumers \ {c} : consumer'[d] = consumer[d]
      BY Zenon, <2>2
    <3> QED
      BY Zenon, <2>3, <3>1
  <2> QED
    BY Zenon, <1>1, <2>1, <2>4, <2>5 DEF DropInv
<1> QED
  BY Zenon, <1>3, <1>4

\* Inside drop the consumer is the only one that is not idle.
LEMMA OneDrops ==
    ASSUME IInv, DropInv, ~Panicked, stage = "drop",
           NEW c \in Consumers, consumer[c].pc # "idle"
    PROVE  /\ Dropping(c)
           /\ \A d \in Consumers \ {c} : consumer[d].pc = "idle"
           /\ \A p \in Producers : producer[p].pc = "idle"
  BY Zenon DEF IInv, LockIsExclusive, DropInv, Panicked

\* To keep DropInv, a step of drop that does not return has to keep Dropping.
LEMMA DroppingKept ==
    ASSUME IInv, DropInv, NEW c \in Consumers, consumer[c].pc # "idle",
           DropStep(c),
           ~Panicked' /\ ~Panicked => Dropping(c)'
    PROVE  DropInv'
<1>1. /\ stage = "drop" /\ stage' = "drop"
      /\ TypeOK
  BY Zenon DEF DropStep, IInv
<1>2. producer' = producer
  BY Zenon DEF DropStep, LoadEnqueuing, SwapBuffers, PublishCapacity,
               TakeSlice, GiveUpSpinning, Release
<1>3. \A p \in Producers : producer'[p].pc \in {"idle", "panicked"}
  BY Zenon, <1>1, <1>2 DEF DropInv
<1>4. ASSUME ~Panicked'
      PROVE  \A d \in Consumers : consumer'[d].pc # "idle" => Dropping(d)'
  <2>1. /\ ~Panicked
        /\ \A d \in Consumers \ {c} : consumer'[d] = consumer[d]
    BY Zenon, <1>1, <1>4, PanicIsFinal
  <2>2. \A d \in Consumers \ {c} : consumer[d].pc = "idle"
    BY Zenon, <1>1, <2>1, OneDrops
  <2>3. \A d \in Consumers : consumer'[d].pc # "idle" => d = c
    BY Zenon, <2>1, <2>2
  <2> QED
    BY Zenon, <1>4, <2>1, <2>3
<1> QED
  BY Zenon, <1>1, <1>3, <1>4 DEF DropInv

\* Each step of the dequeue.  It cannot give up: no producer is left.
LEMMA DropStepInv ==
    ASSUME IInv, DropInv, NEW c \in Consumers, DropStep(c)
    PROVE  DropInv'
<1> DEFINE t == consumer[c]
<1>1. /\ consumer \in [Consumers -> ConsumerRecord]
      /\ t \in ConsumerRecord /\ ConsumerInv(c)
      /\ t.index \in Buffer /\ buf_capacity[t.index] \in Nat
  <2>1. t \in ConsumerRecord /\ ConsumerInv(c) /\ MaxCapacity \in Nat
    BY Zenon, HolderFacts
  <2>2. t.index \in Buffer
    BY Zenon, <2>1 DEF ConsumerRecord
  <2>3. buf_capacity[t.index] \in 0..MaxCapacity
    BY Zenon, <2>2, HolderFacts
  <2>4. buf_capacity[t.index] \in Nat
    BY <2>1, <2>3
  <2>5. consumer \in [Consumers -> ConsumerRecord]
    BY Zenon DEF IInv, TypeOK, ConsumerRecord
  <2> QED
    BY Zenon, <2>1, <2>2, <2>4, <2>5
<1>2. /\ stage = "drop" /\ stage' = "drop" /\ requeued' = requeued
      /\ t.pc # "idle"
      /\ buf_capacity' = buf_capacity
  <2>1. /\ stage = "drop" /\ UNCHANGED <<stage, requeued, buf_capacity>>
        /\ t.pc \in {"load", "swap", "notify", "spin", "slice", "iter"}
    BY Zenon DEF DropStep, LoadEnqueuing, SwapBuffers, PublishCapacity,
       TakeSlice, GiveUpSpinning, Release, buffer_vars
  <2> QED
    BY Zenon, <2>1
<1>3. SUFFICES ASSUME ~Panicked
               PROVE  Dropping(c)'
  BY Zenon, <1>2, DroppingKept
<1>4. /\ Dropping(c)
      /\ \A p \in Producers : producer[p].pc = "idle"
  BY Zenon, <1>2, <1>3, OneDrops
<1>5. CASE LoadEnqueuing(c)
  <2>1. t.pc = "load" /\ t.inserted = 0 /\ UNCHANGED enqueuing_capacity
    BY Zenon, <1>4, <1>5 DEF LoadEnqueuing, Dropping
  <2>2. CASE NothingToDequeue(c, enqueuing_capacity)
    <3>1. consumer'[c].pc = "store" /\ consumer'[c].length = 0
      BY Zenon, <1>1, <1>5, <2>2 DEF LoadEnqueuing, At
    <3>2. Untouched'
      BY Zenon, <1>2, <2>1, <2>2 DEF NothingToDequeue, Untouched
    <3> QED
      BY Zenon, <1>2, <3>1, <3>2 DEF Dropping
  <2>3. CASE ~NothingToDequeue(c, enqueuing_capacity)
    <3>1. consumer'[c].pc = "swap" /\ consumer'[c].inserted = 0
      BY Zenon, <1>1, <1>5, <2>1, <2>3 DEF LoadEnqueuing, Goto, ConsumerRecord
    <3> QED
      BY Zenon, <1>2, <3>1 DEF Dropping
  <2> QED
    BY Zenon, <2>2, <2>3
<1>6. CASE SwapBuffers(c)
  <2>1. t.pc = "swap" /\ t.inserted = 0
    BY Zenon, <1>4, <1>6 DEF SwapBuffers, Dropping
  <2>2. consumer'[c].pc = "notify" /\ consumer'[c].inserted = 0
    BY Zenon, <1>1, <1>6, <2>1 DEF SwapBuffers, Goto, ConsumerRecord
  <2>3. /\ enqueuing_capacity'.index = t.index
        /\ enqueuing_capacity'.remaining = buf_capacity[t.index] - t.inserted
    BY Zenon, <1>6 DEF SwapBuffers, WithClosed, EnqueuingCapacity
  <2>4. Untouched'
    BY <1>1, <1>2, <2>1, <2>3 DEF Untouched
  <2> QED
    BY Zenon, <1>2, <2>2, <2>4 DEF Dropping
<1>7. CASE PublishCapacity(c)
  <2>1. /\ t.pc = "notify" /\ t.inserted = 0
        /\ UNCHANGED <<enqueuing_capacity, buf_capacity>>
    BY Zenon, <1>4, <1>7 DEF PublishCapacity, Dropping, buffer_vars
  <2>2. ~requeued => Untouched'
    BY Zenon, <1>4, <2>1 DEF Dropping, Untouched
  <2>3. /\ consumer'[c].pc \in {"spin", "store"}
        /\ consumer'[c].pc = "store" => consumer'[c].length = 0
    BY <1>1, <1>7, <2>1 DEF PublishCapacity, At
  <2> QED
    BY Zenon, <1>2, <2>2, <2>3 DEF Dropping
<1>8. CASE TakeSlice(c)
  <2>1. t.pc = "spin" /\ UNCHANGED <<enqueuing_capacity, buf_capacity>>
    BY Zenon, <1>8 DEF TakeSlice, buffer_vars
  <2>2. ~requeued => Untouched'
    BY Zenon, <1>4, <2>1 DEF Dropping, Untouched
  <2>3. consumer'[c].pc = "slice"
    BY Zenon, <1>1, <1>8 DEF TakeSlice, Goto, ConsumerRecord
  <2> QED
    BY Zenon, <1>2, <2>2, <2>3 DEF Dropping
<1>9. CASE GiveUpSpinning(c)
  <2>1. t.pc = "spin" /\ ~SpinDone(c)
    BY Zenon, <1>9 DEF GiveUpSpinning
  <2>2. PICK p \in Producers : Owes(p)
    BY Zenon, <2>1, PendingHasProducer DEF PendingIsTrue
  <2> QED
    BY Zenon, <1>4, <2>2 DEF Owes
<1>10. CASE Release(c)
  <2>1. t.pc \in {"slice", "iter"} /\ UNCHANGED enqueuing_capacity
    BY Zenon, <1>10 DEF Release
  <2>2. ~requeued => Untouched'
    BY Zenon, <1>2, <1>4, <2>1 DEF Dropping, Untouched
  <2>3. consumer'[c].pc = "store" /\ consumer'[c].length = 0
    BY Zenon, <1>1, <1>10 DEF Release, At
  <2> QED
    BY Zenon, <1>2, <2>2, <2>3 DEF Dropping
<1> QED
  BY Zenon, <1>5, <1>6, <1>7, <1>8, <1>9, <1>10 DEF DropStep

\* The store that ends the dequeue.
LEMMA DropDoneInv ==
    ASSUME IInv, DropInv, NEW c \in Consumers, DropDone(c)
    PROVE  DropInv'
<1>1. /\ stage = "drop" /\ stage' = "gone" /\ requeued' = requeued
      /\ consumer[c].pc = "store" /\ producer' = producer
      /\ UNCHANGED <<enqueuing_capacity, buf_capacity>>
  BY Zenon DEF DropDone, StoreDequeuing, buffer_vars
<1>2. \A p \in Producers : producer'[p].pc \in {"idle", "panicked"}
  BY Zenon, <1>1 DEF DropInv
<1>3. SUFFICES ASSUME ~Panicked'
               PROVE  /\ \A d \in Consumers : consumer'[d].pc = "idle"
                      /\ dequeuing_length' # DEQUEUING_LOCKED
                      /\ dequeuing_length'.length = 0
                      /\ ~requeued' => Untouched'
  BY Zenon, <1>1, <1>2 DEF DropInv
<1>4. /\ ~Panicked
      /\ \A d \in Consumers \ {c} : consumer'[d] = consumer[d]
  BY Zenon, <1>3, PanicIsFinal DEF IInv
<1>5. /\ Dropping(c)
      /\ \A d \in Consumers \ {c} : consumer[d].pc = "idle"
  BY Zenon, <1>1, <1>4, OneDrops
<1>6. consumer \in [Consumers -> ConsumerRecord]
  BY Zenon DEF IInv, TypeOK, ConsumerRecord
<1>7. consumer'[c].pc = "idle"
  BY Zenon, <1>6 DEF DropDone, StoreDequeuing, IdleConsumer, At
<1>8. \A d \in Consumers : consumer'[d].pc = "idle"
  BY Zenon, <1>4, <1>5, <1>7
<1>9. dequeuing_length' # DEQUEUING_LOCKED /\ dequeuing_length'.length = 0
  BY <1>1, <1>5 DEF DropDone, StoreDequeuing, Dropping, DequeuingLength,
                    DEQUEUING_LOCKED
<1>10. ~requeued' => Untouched'
  BY Zenon, <1>1, <1>5 DEF Dropping, Untouched
<1> QED
  BY Zenon, <1>8, <1>9, <1>10

-----------------------------------------------------------------------------
(* The destructor.                                                         *)

\* DropInv is inductive relative to the invariant of the queue.
LEMMA NextDropInv == IInv /\ DropInv /\ [NextDrop]_drop_vars => DropInv'
<1> SUFFICES ASSUME IInv, DropInv, [NextDrop]_drop_vars
             PROVE  DropInv'
  BY Zenon
<1>1. CASE UNCHANGED drop_vars
  BY Zenon, <1>1 DEF drop_vars, vars, DropInv, Dropping, Untouched, Panicked
<1>2. CASE Use
  BY Zenon, <1>2 DEF Use, DropInv
<1>3. ASSUME NEW c \in Consumers, Drop(c) \/ DropStep(c) \/ DropDone(c)
      PROVE  DropInv'
  BY Zenon, <1>3, DropCallInv, DropStepInv, DropDoneInv
<1> QED
  BY Zenon, <1>1, <1>2, <1>3 DEF NextDrop

\* Once Queue::drop has begun, its dequeue runs to the end without being
\* refused and without giving up on a producer, unless a call unwound.
THEOREM DropInvariance == SpecDrop => [](IInv /\ DropInv)
<1>1. InitDrop => DropInv
  BY Zenon DEF InitDrop, DropInv
<1>2. SpecDrop => []IInv
  BY DropRefinesQueue, Invariance, PTL
<1> QED
  BY <1>1, <1>2, NextDropInv, PTL DEF SpecDrop

\* Queue::drop frees every value of the dequeuing buffer, and of both buffers
\* when nothing was due, for any threads, values, capacities and history of
\* enqueues, resizes, requeues and closes in which no call unwound.
THEOREM DropFrees == SpecDrop => []DropFreesOneBuffer
<1>1. IInv /\ DropInv => DropFreesOneBuffer
  <2> SUFFICES ASSUME IInv, DropInv, stage = "gone", ~Panicked
               PROVE  /\ cells[dequeuing_length.index] = NewCells
                      /\ ~requeued => \A b \in Buffer : cells[b] = NewCells
    BY Zenon DEF DropFreesOneBuffer
  <2> DEFINE d == dequeuing_length.index
             e == enqueuing_capacity.index
  <2>1. /\ dequeuing_length # DEQUEUING_LOCKED
        /\ dequeuing_length.length = 0
        /\ ~requeued => Untouched
    BY Zenon DEF DropInv
  <2>2. e \in Buffer /\ buf_capacity[e] \in Nat
    BY QueueAssumption DEF IInv, TypeOK, EnqueuingWord, QueueAssumption
  <2>3. d = Other /\ IsDue(Buf[d], 0)
    BY Zenon, <2>1 DEF IInv, UnlockedInv
  <2>4. d \in Buffer /\ \A b \in Buffer : b = d \/ b = e
    BY <2>2, <2>3 DEF Other, Buffer
  <2>5. Reserved(Buf[d], 0)
    BY <2>3 DEF IsDue, Drained
  <2>6. cells[d] = NewCells
    BY Zenon, <2>4, <2>5, ReservedNoneIsNew
  <2>7. ASSUME ~requeued
        PROVE  cells[e] = NewCells
    <3>1. buf_capacity[e] - enqueuing_capacity.remaining = 0
      BY <2>1, <2>2, <2>7 DEF Untouched
    <3>2. Reserved(Buf[e], 0)
      BY Zenon, <3>1 DEF IInv, EnqueuingInv
    <3> QED
      BY Zenon, <2>2, <3>2, ReservedNoneIsNew
  <2> QED
    BY Zenon, <2>4, <2>6, <2>7
<1> QED
  BY <1>1, DropInvariance, PTL
=============================================================================
