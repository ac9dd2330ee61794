------------------------ MODULE QueueProducerProofs -------------------------
(***************************************************************************)
(* Which cells of a Queue producers owe, and that every step of            *)
(* try_enqueue, close and reopen preserves IInv.                           *)
(***************************************************************************)
EXTENDS QueueInvariant, FiniteSetTheorems, TLAPS

-----------------------------------------------------------------------------
(* The state, and what IInv says of it.                                    *)

ConsumerRecord ==
    [pc : ConsumerPc, index : Buffer, length : 0..MaxCapacity,
     start : 0..MaxCapacity, resized : BOOLEAN, inserted : 0..MaxCapacity,
     seen : EnqueuingWord]

\* What is known of the consumer that takes a step.
LEMMA HolderFacts ==
    ASSUME IInv, NEW c \in Consumers
    PROVE  /\ consumer[c] \in ConsumerRecord
           /\ ConsumerInv(c)
           /\ enqueuing_capacity \in EnqueuingWord
           /\ enqueuing_capacity.index \in Buffer
           /\ enqueuing_capacity.remaining \in 0..MaxCapacity
           /\ Other \in Buffer /\ Other # enqueuing_capacity.index
           /\ \A b \in Buffer : /\ buf_capacity[b] \in 0..MaxCapacity
                                /\ buffers_length[b] \in 0..MaxCapacity
                                /\ Buf[b].owed = Owed[b]
                                /\ Buf[b].acked = buffers_length[b]
                                /\ Buf[b].capa = buf_capacity[b]
                                /\ Buf[b].cells = cells[b]
           /\ MaxCapacity \in Nat
           /\ NoWord \in EnqueuingWord
  BY QueueAssumption DEF IInv, TypeOK, ConsumerRecord, EnqueuingWord, Other,
     Buffer, Buf, QueueAssumption, NoWord, EnqueuingCapacity

-----------------------------------------------------------------------------
(* Owed cells.                                                             *)

\* The cells owed in a buffer are a finite set, empty exactly when its size
\* is zero.
LEMMA OwedFinite ==
    \A b \in Buffer : /\ Owed[b] \subseteq Cell
                      /\ IsFiniteSet(Owed[b])
                      /\ Cardinality(Owed[b]) \in Nat
                      /\ Cardinality(Owed[b]) = 0 <=> Owed[b] = {}
<1> SUFFICES ASSUME NEW b \in Buffer
             PROVE  /\ Owed[b] \subseteq Cell
                    /\ IsFiniteSet(Owed[b])
                    /\ Cardinality(Owed[b]) \in Nat
                    /\ Cardinality(Owed[b]) = 0 <=> Owed[b] = {}
  BY Zenon
<1>1. Owed[b] \subseteq Cell
  BY Zenon DEF Owed
<1>2. IsFiniteSet(Cell)
  BY QueueAssumption, FS_Interval DEF QueueAssumption, Cell
<1>3. IsFiniteSet(Owed[b])
  BY Zenon, <1>1, <1>2, FS_Subset
<1>4. Cardinality(Owed[b]) \in Nat /\ (Cardinality(Owed[b]) = 0 <=> Owed[b] = {})
  BY Zenon, <1>3, FS_CardinalityType, FS_EmptySet
<1> QED
  BY Zenon, <1>1, <1>3, <1>4

\* The cells that a reservation of n elements takes are cells of the buffer.
LEMMA ReservedRange ==
    ASSUME NEW capa \in 0..MaxCapacity, NEW remaining \in Nat, NEW n \in Nat,
           n <= remaining, capa - remaining \in Nat
    PROVE  (capa - remaining)..(capa - remaining + n - 1) \subseteq Cell
<1>1. MaxCapacity \in Nat
  BY Zenon, QueueAssumption DEF QueueAssumption
<1> SUFFICES ASSUME NEW i \in (capa - remaining)..(capa - remaining + n - 1)
             PROVE  i \in Cell
  BY Zenon
<1>2. i \in Int /\ 0 <= i /\ i <= MaxCapacity - 1
  BY <1>1
<1> QED
  BY <1>1, <1>2 DEF Cell

\* A producer that owes cells owes at least one, inside its buffer.
LEMMA OwedCellsFacts ==
    ASSUME TypeOK, NEW p \in Producers, Owes(p), ProducerInv(p)
    PROVE  /\ producer[p].value \in Seq(Element)
           /\ Len(producer[p].value) \in Nat \ {0}
           /\ InsertIndex(p) \in Nat
           /\ InsertIndex(p) + Len(producer[p].value)
                 <= buf_capacity[producer[p].seen.index]
           /\ OwedCells(p) \subseteq Cell
           /\ OwedCells(p) \subseteq Owed[producer[p].seen.index]
           /\ InsertIndex(p) \in OwedCells(p)
<1> DEFINE t == producer[p]
<1>1. /\ t.seen \in EnqueuingWord
      /\ t.pc # "idle"
  BY Zenon DEF TypeOK, Owes
<1>2. /\ t.value \in Seq(Element)
      /\ Len(t.value) \in Nat \ {0}
  BY <1>1, QueueAssumption DEF ProducerInv, QueueAssumption
<1>3. /\ Len(t.value) <= t.seen.remaining
      /\ t.seen.remaining <= buf_capacity[t.seen.index]
      /\ t.seen.remaining \in Nat
      /\ buf_capacity[t.seen.index] \in 0..MaxCapacity
      /\ t.seen.index \in Buffer
  BY <1>1 DEF ProducerInv, TypeOK, EnqueuingWord
<1>4. /\ InsertIndex(p) \in Nat
      /\ InsertIndex(p) + Len(t.value) <= buf_capacity[t.seen.index]
  BY <1>2, <1>3, QueueAssumption DEF InsertIndex, QueueAssumption
<1>5. /\ OwedCells(p) \subseteq Cell
      /\ InsertIndex(p) \in OwedCells(p)
  BY <1>2, <1>3, <1>4, QueueAssumption DEF OwedCells, Cell, QueueAssumption
<1>6. OwedCells(p) \subseteq Owed[t.seen.index]
  BY Zenon, <1>3, <1>5 DEF Owed
<1> QED
  BY Zenon, <1>2, <1>4, <1>5, <1>6

\* In a buffer nobody owes cells of, no producer is between its reservation
\* and its acknowledgement.
LEMMA NobodyOwes ==
    ASSUME TypeOK, \A p \in Producers : ProducerInv(p),
           NEW b \in Buffer, Owed[b] = {}
    PROVE  \A p \in Producers : Owes(p) => producer[p].seen.index # b
  BY Zenon, OwedCellsFacts

\* What is owed depends on the producers that owe and on the capacity of
\* their buffer only.
LEMMA OwedUnchanged ==
    ASSUME UNCHANGED <<producer, buf_capacity>>
    PROVE  Owed' = Owed
  BY Zenon DEF Owed, Owes, OwedCells, InsertIndex

\* A step of p that neither reserves nor acknowledges leaves Owed alone.
LEMMA OwedSameProducer ==
    ASSUME TypeOK, NEW p \in Producers, NEW t,
           producer' = [producer EXCEPT ![p] = t],
           UNCHANGED buf_capacity,
           \/ ~Owes(p) /\ t.pc \in {"idle", "cas"}
           \/ /\ Owes(p) /\ t.pc \in {"ack", "panicked"}
              /\ t.seen = producer[p].seen /\ t.value = producer[p].value
    PROVE  /\ Owed' = Owed
           /\ \A q \in Producers \ {p} : producer'[q] = producer[q]
           /\ \A q \in Producers : Owes(q)' <=> Owes(q)
           /\ \A q \in Producers : Owes(q) => OwedCells(q)' = OwedCells(q)
<1>1. /\ producer'[p] = t
      /\ \A q \in Producers \ {p} : producer'[q] = producer[q]
  BY Zenon DEF TypeOK
<1>2. \A q \in Producers : Owes(q)' <=> Owes(q)
  BY Zenon, <1>1 DEF Owes
<1>3. \A q \in Producers : Owes(q) =>
          /\ producer'[q].seen = producer[q].seen
          /\ producer'[q].value = producer[q].value
  BY Zenon, <1>1 DEF Owes
<1>4. \A q \in Producers : Owes(q) => OwedCells(q)' = OwedCells(q)
  BY Zenon, <1>3 DEF OwedCells, InsertIndex
<1>5. Owed' = Owed
  BY <1>2, <1>3, <1>4 DEF Owed
<1> QED
  BY Zenon, <1>1, <1>2, <1>4, <1>5

-----------------------------------------------------------------------------
(* What a change to one buffer preserves.                                  *)

\* Writes in owed cells.
LEMMA WriteOwed ==
    ASSUME NEW s, NEW r, r.owed = s.owed, r.acked = s.acked, r.capa = s.capa,
           \A i \in Cell \ s.owed : r.cells[i] = s.cells[i]
    PROVE  /\ \A n : Reserved(s, n) => Reserved(r, n)
           /\ \A n : Drained(s, n) => Drained(r, n)
           /\ \A n : Prepared(s, n) => Prepared(r, n)
           /\ \A lo, hi : Settled(s, lo, hi) => Settled(r, lo, hi)
<1>1. \A lo, hi : Settled(s, lo, hi) => Settled(r, lo, hi)
  BY Zenon DEF Settled
<1>2. \A n : Reserved(s, n) => Reserved(r, n)
  BY Zenon DEF Reserved
<1> QED
  BY Zenon, <1>1, <1>2 DEF Drained, Prepared

\* While what is owed stays the same, a write in owed cells disturbs nothing
\* that is known of the two buffers and of the consumers.
LEMMA WritesInOwedCells ==
    ASSUME IInv, Owed' = Owed,
           UNCHANGED <<enqueuing_capacity, dequeuing_length, buffers_length,
                       buf_capacity, capacity, consumer>>,
           \A b \in Buffer : \A i \in Cell \ Owed[b] :
               cells'[b][i] = cells[b][i]
    PROVE  /\ LockIsExclusive' /\ EnqueuingInv' /\ UnlockedInv'
           /\ \A c \in Consumers : ConsumerInv(c)'
           /\ CapacityIsPublished'
<1>0. TypeOK
  BY Zenon DEF IInv
<1>1. LockIsExclusive' /\ CapacityIsPublished'
  BY Zenon DEF IInv, LockIsExclusive, CapacityIsPublished
<1>2. /\ enqueuing_capacity.index \in Buffer
      /\ Other \in Buffer
      /\ Other' = Other
  BY <1>0 DEF TypeOK, EnqueuingWord, Other, Buffer
<1>3. \A b \in Buffer :
          /\ Buf'[b].owed = Buf[b].owed
          /\ Buf'[b].acked = Buf[b].acked
          /\ Buf'[b].capa = Buf[b].capa
          /\ \A i \in Cell \ Buf[b].owed : Buf'[b].cells[i] = Buf[b].cells[i]
  BY Zenon DEF Buf
<1>4. \A b \in Buffer :
          /\ \A n : Reserved(Buf[b], n) => Reserved(Buf'[b], n)
          /\ \A n : Drained(Buf[b], n) => Drained(Buf'[b], n)
          /\ \A n : Prepared(Buf[b], n) => Prepared(Buf'[b], n)
          /\ \A lo, hi : Settled(Buf[b], lo, hi) => Settled(Buf'[b], lo, hi)
  BY Zenon, <1>3, WriteOwed
<1>5. EnqueuingInv'
  BY Zenon, <1>2, <1>4 DEF IInv, EnqueuingInv
<1>6. UnlockedInv'
  BY Zenon, <1>2, <1>4 DEF IInv, UnlockedInv, IsDue
<1>7. ASSUME NEW c \in Consumers PROVE ConsumerInv(c)'
  <2>1. ConsumerInv(c) /\ consumer[c].index \in Buffer
    BY Zenon, <1>0 DEF IInv, TypeOK
  <2> DEFINE s == Buf[consumer[c].index]
             r == Buf'[consumer[c].index]
  <2>2. /\ r.owed = s.owed /\ r.acked = s.acked /\ r.capa = s.capa
        /\ \A n : Reserved(s, n) => Reserved(r, n)
        /\ \A n : Prepared(s, n) => Prepared(r, n)
        /\ \A n : IsDue(s, n) => IsDue(r, n)
        /\ \A lo, hi : Settled(s, lo, hi) => Settled(r, lo, hi)
    BY Zenon, <1>3, <1>4, <2>1 DEF IsDue
  <2>3. \A n : Reserved(Buf[Other], n) => Reserved(Buf'[Other], n)
    BY Zenon, <1>2, <1>4
  <2> QED
    BY SMTT(40), <1>2, <2>1, <2>2, <2>3 DEF ConsumerInv
<1> QED
  BY Zenon, <1>1, <1>5, <1>6, <1>7

-----------------------------------------------------------------------------
(* One lemma per kind of step: IInv is preserved.  First the producers.    *)

\* The loop of try_enqueue, with a word it has just read.
LEMMA CheckWordInv ==
    ASSUME IInv, NEW p \in Producers, ~Owes(p), NEW value \in Values,
           CheckWord(p, value, enqueuing_capacity),
           UNCHANGED <<enqueuing_capacity, dequeuing_length, buffers_length,
                       buffer_vars, capacity, consumer>>
    PROVE  IInv'
<1> DEFINE t == IF enqueuing_capacity.closed
                     \/ ~CanReserve(enqueuing_capacity, Len(value))
                THEN IdleProducer
                ELSE [pc |-> "cas", value |-> value,
                      seen |-> enqueuing_capacity]
<1>0. TypeOK /\ enqueuing_capacity \in EnqueuingWord
  BY Zenon DEF IInv, TypeOK
<1>1. /\ producer' = [producer EXCEPT ![p] = t]
      /\ UNCHANGED <<buf_capacity, cells>>
      /\ t.pc \in {"idle", "cas"}
  BY Zenon DEF CheckWord, buffer_vars, IdleProducer
<1> HIDE DEF t
<1>2. /\ Owed' = Owed
      /\ \A q \in Producers \ {p} : producer'[q] = producer[q]
      /\ \A q \in Producers : Owes(q)' <=> Owes(q)
      /\ \A q \in Producers : Owes(q) => OwedCells(q)' = OwedCells(q)
  BY Zenon, <1>0, <1>1, OwedSameProducer
<1>3. producer'[p] = t
  BY Zenon, <1>0, <1>1 DEF TypeOK
<1>4. /\ LockIsExclusive' /\ EnqueuingInv' /\ UnlockedInv'
      /\ \A c \in Consumers : ConsumerInv(c)'
      /\ CapacityIsPublished'
  BY Zenon, <1>1, <1>2, WritesInOwedCells
<1>5. t \in [pc : ProducerPc, value : Values \cup {<<>>}, seen : EnqueuingWord]
  BY <1>0, QueueAssumption DEF t, IdleProducer, NoWord, EnqueuingCapacity,
        EnqueuingWord, ProducerPc, Buffer, QueueAssumption
<1>6. TypeOK'
  BY Zenon, <1>0, <1>1, <1>5 DEF TypeOK
<1>7. ASSUME NEW q \in Producers PROVE ProducerInv(q)'
  <2>1. CASE q = p
    <3>1. t.pc # "idle" =>
              t.value \in Values /\ Len(t.value) <= t.seen.remaining
      BY Zenon DEF t, IdleProducer, CanReserve
    <3>2. ~Owes(q)' /\ t.pc # "insert" /\ t.pc # "ack"
      BY Zenon, <1>1, <1>2, <2>1
    <3> QED
      BY Zenon, <1>3, <2>1, <3>1, <3>2 DEF ProducerInv
  <2>2. CASE q # p
    BY <1>1, <1>2, <2>2 DEF IInv, ProducerInv, Owes
  <2> QED
    BY Zenon, <2>1, <2>2
<1>8. DisjointOwed'
  BY Zenon, <1>2 DEF IInv, DisjointOwed, Owes
<1> QED
  BY Zenon, <1>4, <1>6, <1>7, <1>8 DEF IInv

\* A producer reads the word, at the start of try_enqueue or in its retry
\* loop.
LEMMA TryEnqueueInv ==
    ASSUME IInv, NEW p \in Producers, TryEnqueue(p) \/ RetryReserve(p)
    PROVE  IInv'
<1>1. ~Owes(p)
  BY Zenon DEF TryEnqueue, RetryReserve, Owes
<1>2. CASE TryEnqueue(p)
  BY Zenon, <1>1, <1>2, CheckWordInv DEF TryEnqueue
<1>3. CASE RetryReserve(p)
  <2>1. producer[p].value \in Values
    BY Zenon, <1>3 DEF IInv, ProducerInv, RetryReserve
  <2> QED
    BY Zenon, <1>1, <1>3, <2>1, CheckWordInv DEF RetryReserve
<1> QED
  BY Zenon, <1>2, <1>3

\* The reservation: the first free cells become owed.
LEMMA ReserveCellsOwed ==
    ASSUME IInv, NEW p \in Producers, ReserveCells(p)
    PROVE  LET b == producer[p].seen.index IN
           /\ Owed' = [Owed EXCEPT ![b] = @ \cup OwedCells(p)]
           /\ OwedCells(p) =
                 (buf_capacity[b] - enqueuing_capacity.remaining)..
                 (buf_capacity[b] - enqueuing_capacity.remaining
                    + Len(producer[p].value) - 1)
           /\ \A q \in Producers \ {p} : producer'[q] = producer[q]
           /\ \A q \in Producers : OwedCells(q)' = OwedCells(q)
           /\ \A q \in Producers : Owes(q)' <=> (Owes(q) \/ q = p)
<1> DEFINE b == producer[p].seen.index
<1>1. /\ producer'[p].pc = "insert"
      /\ producer'[p].value = producer[p].value
      /\ producer'[p].seen = producer[p].seen
      /\ \A q \in Producers \ {p} : producer'[q] = producer[q]
      /\ UNCHANGED buf_capacity
      /\ producer[p].seen = enqueuing_capacity
      /\ b \in Buffer
  BY DEF IInv, TypeOK, ReserveCells, Goto, buffer_vars, EnqueuingWord
<1>2. \A q \in Producers : OwedCells(q)' = OwedCells(q)
  BY Zenon, <1>1 DEF OwedCells, InsertIndex
<1>3. \A q \in Producers : Owes(q)' <=> (Owes(q) \/ q = p)
  BY Zenon, <1>1 DEF Owes
<1>4. \A q \in Producers : producer'[q].seen = producer[q].seen
  BY Zenon, <1>1
<1>5. OwedCells(p) \subseteq Cell
  <2>1. /\ Len(producer[p].value) <= enqueuing_capacity.remaining
        /\ Len(producer[p].value) \in Nat
        /\ enqueuing_capacity.remaining \in Nat
        /\ buf_capacity[b] \in 0..MaxCapacity
    BY <1>1, QueueAssumption DEF IInv, TypeOK, ProducerInv, ReserveCells,
          EnqueuingWord, QueueAssumption
  <2>2. buf_capacity[b] - enqueuing_capacity.remaining \in Nat
    <3>1. Reserved(Buf[b], buf_capacity[b] - enqueuing_capacity.remaining)
      BY Zenon, <1>1 DEF IInv, EnqueuingInv
    <3>2. buf_capacity[b] - enqueuing_capacity.remaining \in 0..Buf[b].capa
      BY Zenon, <3>1 DEF Reserved
    <3> QED
      BY <3>2
  <2> HIDE DEF b
  <2>3. OwedCells(p) = (buf_capacity[b] - enqueuing_capacity.remaining)..
                       (buf_capacity[b] - enqueuing_capacity.remaining
                          + Len(producer[p].value) - 1)
    BY Zenon, <1>1 DEF OwedCells, InsertIndex, b
  <2> QED
    BY Zenon, <2>1, <2>2, <2>3, ReservedRange
<1>6. Owed' = [Owed EXCEPT ![b] = @ \cup OwedCells(p)]
  <2>1. \A i \in Cell, d \in Buffer :
            (\E q \in Producers : Owes(q)' /\ producer'[q].seen.index = d
                                   /\ i \in OwedCells(q)')
            <=> \/ \E q \in Producers : Owes(q) /\ producer[q].seen.index = d
                                          /\ i \in OwedCells(q)
                \/ d = b /\ i \in OwedCells(p)
    BY Zenon, <1>2, <1>3, <1>4
  <2>2. \A d \in Buffer : Owed'[d] =
            IF d = b THEN Owed[d] \cup OwedCells(p) ELSE Owed[d]
    BY Zenon, <1>5, <2>1 DEF Owed
  <2>3. /\ Owed = [d \in Buffer |-> Owed[d]]
        /\ Owed' = [d \in Buffer |-> Owed'[d]]
    BY Zenon DEF Owed
  <2> HIDE DEF b
  <2> QED
    BY Zenon, <1>1, <2>2, <2>3
<1> QED
  BY Zenon, <1>1, <1>2, <1>3, <1>6 DEF OwedCells, InsertIndex

\* Reserving k more cells of a buffer.
LEMMA ReserveMore ==
    ASSUME NEW s, NEW r, NEW n \in Nat, NEW k \in Nat,
           Reserved(s, n), IsFiniteSet(s.owed), s.owed \subseteq Cell,
           s.acked \in Nat, s.capa \in Nat, n + k <= s.capa,
           r.owed = s.owed \cup n..(n + k - 1),
           r.acked = s.acked, r.capa = s.capa, r.cells = s.cells
    PROVE  Reserved(r, n + k)
<1> DEFINE I == n..(n + k - 1)
<1>1. IsFiniteSet(I) /\ Cardinality(I) = k
  <2>1. n \in Int /\ n + k - 1 \in Int
    OBVIOUS
  <2>2. /\ IsFiniteSet(I)
        /\ Cardinality(I) = IF n > n + k - 1 THEN 0
                            ELSE (n + k - 1) - n + 1
    BY Zenon, <2>1, FS_Interval
  <2> QED
    BY <2>2
<1>2. s.owed \cap I = {}
  BY DEF Reserved, Cell
<1>3. Cardinality({}) = 0
  BY Zenon, FS_EmptySet
<1>4. Cardinality(r.owed) =
          Cardinality(s.owed) + Cardinality(I) - Cardinality(s.owed \cap I)
  BY Zenon, <1>1, FS_Union
<1>5. Cardinality(s.owed) \in Nat
  BY Zenon, FS_CardinalityType
<1>6. r.acked + Cardinality(r.owed) = n + k
  <2>1. s.acked + Cardinality(s.owed) = n
    BY Zenon DEF Reserved
  <2>2. Cardinality(r.owed) = Cardinality(s.owed) + k
    <3> HIDE DEF I
    <3>1. Cardinality(s.owed \cap I) = 0
      BY <1>2, <1>3, Zenon
    <3> QED
      BY <1>1, <1>4, <1>5, <3>1
  <2> QED
    BY <1>5, <2>1, <2>2
<1>7. \A i \in r.owed : i < n + k
  BY DEF Reserved, Cell
<1>8. \A i \in Cell \ r.owed : r.cells[i] # Uninit <=> i < n + k
  BY DEF Reserved, Cell
<1> QED
  BY <1>6, <1>7, <1>8 DEF Reserved

\* A step that leaves the dequeuing side alone, and in the enqueuing buffer
\* at most reserves or acknowledges, disturbs no consumer.
LEMMA OtherUnchanged ==
    ASSUME IInv, enqueuing_capacity'.index = enqueuing_capacity.index,
           enqueuing_capacity'.remaining <= enqueuing_capacity.remaining,
           enqueuing_capacity'.remaining \in Nat,
           Buf'[Other] = Buf[Other],
           UNCHANGED <<dequeuing_length, buf_capacity, capacity, consumer>>
    PROVE  /\ LockIsExclusive' /\ UnlockedInv' /\ CapacityIsPublished'
           /\ \A c \in Consumers : ConsumerInv(c)'
<1>1. TypeOK /\ Other' = Other
  BY Zenon DEF IInv, Other
<1>2. LockIsExclusive' /\ CapacityIsPublished'
  BY Zenon DEF IInv, LockIsExclusive, CapacityIsPublished
<1>3. UnlockedInv'
  BY Zenon, <1>1 DEF IInv, UnlockedInv
<1>4. ASSUME NEW c \in Consumers PROVE ConsumerInv(c)'
  <2>1. ConsumerInv(c)
    BY Zenon DEF IInv
  <2>2. /\ enqueuing_capacity.remaining \in Nat
        /\ consumer[c].seen.remaining \in Nat
    BY <1>1, QueueAssumption DEF TypeOK, EnqueuingWord, QueueAssumption
  <2>3. consumer'[c] = consumer[c] /\ buf_capacity' = buf_capacity
    BY Zenon
  <2>4. CASE consumer[c].pc = "notify"
    BY Zenon, <1>1, <2>1, <2>3, <2>4 DEF ConsumerInv
  <2>5. CASE consumer[c].pc = "swap"
    <3>1. enqueuing_capacity.remaining <= consumer[c].seen.remaining
      BY Zenon, <2>1, <2>5 DEF ConsumerInv
    <3>2. enqueuing_capacity'.remaining <= consumer[c].seen.remaining
      BY <2>2, <3>1
    <3> QED
      BY Zenon, <1>1, <2>1, <2>3, <2>5, <3>2 DEF ConsumerInv
  <2>6. CASE consumer[c].pc \notin {"notify", "swap"}
    BY Zenon, <1>1, <2>1, <2>3, <2>6 DEF ConsumerInv
  <2> QED
    BY Zenon, <2>4, <2>5, <2>6
<1> QED
  BY Zenon, <1>2, <1>3, <1>4

\* The reservation of try_enqueue: the word goes down by the size of the
\* value, and as many cells become owed.
LEMMA ReserveCellsInv ==
    ASSUME IInv, NEW p \in Producers, ReserveCells(p)
    PROVE  IInv'
<1> DEFINE b == producer[p].seen.index
           n == buf_capacity[b] - enqueuing_capacity.remaining
           k == Len(producer[p].value)
<1>0. TypeOK
  BY Zenon DEF IInv
<1>1. /\ producer[p].seen = enqueuing_capacity
      /\ enqueuing_capacity.index = b
      /\ producer[p].pc = "cas"
      /\ b \in Buffer /\ Other \in Buffer /\ Other # b
      /\ enqueuing_capacity.remaining \in 0..MaxCapacity
      /\ buf_capacity[b] \in 0..MaxCapacity
      /\ MaxCapacity \in Nat
      /\ enqueuing_capacity' =
            [enqueuing_capacity EXCEPT !.remaining = @ - k]
  BY <1>0, QueueAssumption DEF TypeOK, ReserveCells, EnqueuingWord, Other,
        Buffer, TryReserve, QueueAssumption
<1>2. /\ producer[p].value \in Values
      /\ k \in Nat
      /\ k <= enqueuing_capacity.remaining
  BY <1>1, QueueAssumption DEF IInv, ProducerInv, QueueAssumption
<1>3. /\ enqueuing_capacity' \in EnqueuingWord
      /\ enqueuing_capacity'.index = enqueuing_capacity.index
      /\ enqueuing_capacity'.remaining = enqueuing_capacity.remaining - k
  <2> HIDE DEF k, n, b
  <2>1. enqueuing_capacity.remaining - k \in 0..MaxCapacity
    BY <1>1, <1>2
  <2>2. enqueuing_capacity \in EnqueuingWord
    BY Zenon, <1>0 DEF TypeOK
  <2>3. enqueuing_capacity' =
            [enqueuing_capacity EXCEPT !.remaining
                = enqueuing_capacity.remaining - k]
    BY Zenon, <1>1
  <2> QED
    BY Zenon, <2>1, <2>2, <2>3 DEF EnqueuingWord
<1>4. /\ Owed' = [Owed EXCEPT ![b] = @ \cup OwedCells(p)]
      /\ OwedCells(p) = n..(n + k - 1)
      /\ \A q \in Producers \ {p} : producer'[q] = producer[q]
      /\ \A q \in Producers : OwedCells(q)' = OwedCells(q)
      /\ \A q \in Producers : Owes(q)' <=> (Owes(q) \/ q = p)
  BY Zenon, ReserveCellsOwed
<1>5. /\ producer'[p].pc = "insert"
      /\ producer'[p].value = producer[p].value
      /\ producer'[p].seen = producer[p].seen
      /\ UNCHANGED <<dequeuing_length, buffers_length, buf_capacity, cells,
                     capacity, consumer>>
  BY Zenon, <1>0 DEF TypeOK, ReserveCells, Goto, buffer_vars
<1>6. Reserved(Buf[b], n) /\ n \in Nat /\ n + k <= buf_capacity[b]
  <2>1. Reserved(Buf[b], n)
    BY Zenon, <1>1 DEF IInv, EnqueuingInv
  <2> QED
    BY <1>1, <1>2, <2>1 DEF Reserved
<1>7. Owed[b] \subseteq Cell /\ IsFiniteSet(Owed[b])
  BY Zenon, <1>1, OwedFinite
<1> HIDE DEF b
<1>8. /\ Buf[b].owed = Owed[b] /\ Buf'[b].owed = Owed[b] \cup OwedCells(p)
      /\ Buf[b].acked = buffers_length[b] /\ Buf'[b].acked = buffers_length[b]
      /\ Buf[b].capa = buf_capacity[b] /\ Buf'[b].capa = buf_capacity[b]
      /\ Buf[b].cells = cells[b] /\ Buf'[b].cells = cells[b]
      /\ Buf'[Other] = Buf[Other]
  <2>1. Owed'[b] = Owed[b] \cup OwedCells(p) /\ Owed'[Other] = Owed[Other]
    BY Zenon, <1>1, <1>4 DEF Owed
  <2> QED
    BY Zenon, <1>1, <1>5, <2>1 DEF Buf
<1>9. EnqueuingInv'
  <2>1. buffers_length[b] \in Nat /\ buf_capacity[b] \in Nat
    BY <1>0, <1>1 DEF TypeOK
  <2>2. Reserved(Buf'[b], n + k)
    <3> HIDE DEF n, k
    <3> QED
      BY Zenon, <1>2, <1>4, <1>6, <1>7, <1>8, <2>1, ReserveMore
  <2>3. buf_capacity'[b] - enqueuing_capacity'.remaining = n + k
    BY <1>1, <1>2, <1>3, <1>5
  <2> QED
    BY Zenon, <1>1, <1>3, <2>2, <2>3 DEF EnqueuingInv
<1>10. /\ LockIsExclusive' /\ UnlockedInv' /\ CapacityIsPublished'
       /\ \A c \in Consumers : ConsumerInv(c)'
  BY <1>1, <1>2, <1>3, <1>5, <1>8, OtherUnchanged
<1>11. TypeOK'
  <2>1. producer' = [producer EXCEPT ![p] = [@ EXCEPT !.pc = "insert"]]
    BY Zenon DEF ReserveCells, Goto
  <2> QED
    BY Zenon, <1>0, <1>3, <1>5, <2>1 DEF TypeOK, ProducerPc
<1>12. ASSUME NEW q \in Producers PROVE ProducerInv(q)'
  <2>1. CASE q = p
    <3>1. \A i \in OwedCells(p) : cells[b][i] = Uninit
      <4>1. \A i \in OwedCells(p) : i \in Cell \ Owed[b] /\ ~(i < n)
        BY <1>1, <1>2, <1>4, <1>6, <1>8 DEF Reserved, Cell
      <4> QED
        BY Zenon, <1>6, <1>8, <4>1 DEF Reserved
    <3>2. enqueuing_capacity.remaining <= buf_capacity[b]
      BY <1>1, <1>6
    <3> QED
      BY Zenon, <1>1, <1>2, <1>4, <1>5, <2>1, <3>1, <3>2 DEF ProducerInv, b
  <2>2. CASE q # p
    BY <1>4, <1>5, <2>2 DEF IInv, ProducerInv, Owes
  <2> QED
    BY Zenon, <2>1, <2>2
<1>13. DisjointOwed'
  <2>1. ASSUME NEW q \in Producers, q # p, Owes(q), producer[q].seen.index = b
        PROVE  OwedCells(q) \cap OwedCells(p) = {}
    <3>1. OwedCells(q) \subseteq Owed[b]
      BY Zenon, <1>0, <2>1, OwedCellsFacts DEF IInv
    <3> QED
      BY <1>4, <1>6, <1>7, <1>8, <3>1 DEF Reserved, Cell
  <2>2. \A q \in Producers : producer'[q].seen = producer[q].seen
    BY Zenon, <1>4, <1>5
  <2>3. ASSUME NEW q \in Producers, NEW r \in Producers, q # r,
               Owes(q)', Owes(r)',
               producer'[q].seen.index = producer'[r].seen.index
        PROVE  OwedCells(q) \cap OwedCells(r) = {}
    <3>1. CASE q = p
      BY Zenon, <1>4, <2>1, <2>2, <2>3, <3>1 DEF b
    <3>2. CASE r = p
      BY Zenon, <1>4, <2>1, <2>2, <2>3, <3>2 DEF b
    <3>3. CASE q # p /\ r # p
      BY Zenon, <1>4, <2>2, <2>3, <3>3 DEF IInv, DisjointOwed
    <3> QED
      BY Zenon, <3>1, <3>2, <3>3
  <2> QED
    BY Zenon, <1>4, <2>3 DEF DisjointOwed
<1> QED
  BY Zenon, <1>9, <1>10, <1>11, <1>12, <1>13 DEF IInv

-----------------------------------------------------------------------------
(* Writing and acknowledging the reserved cells; closing and reopening.    *)

\* The insertion, complete ("ack") or cut short by a panic.
LEMMA InsertInv ==
    ASSUME IInv, NEW p \in Producers, producer[p].pc = "insert",
           NEW n \in 0..Len(producer[p].value), WriteCells(p, n),
           NEW pc \in {"ack", "panicked"},
           pc = "ack" => n = Len(producer[p].value),
           producer' = [producer EXCEPT ![p] = Goto(@, pc)],
           UNCHANGED <<enqueuing_capacity, dequeuing_length, buffers_length,
                       buf_capacity, capacity, consumer>>
    PROVE  IInv'
<1> DEFINE b == producer[p].seen.index
           v == producer[p].value
           at == InsertIndex(p)
<1>0. TypeOK /\ Owes(p) /\ ProducerInv(p)
  BY Zenon DEF IInv, Owes
<1>1. /\ v \in Seq(Element) /\ Len(v) \in Nat \ {0}
      /\ at \in Nat
      /\ OwedCells(p) \subseteq Cell
      /\ OwedCells(p) \subseteq Owed[b]
      /\ OwedCells(p) = at..(at + Len(v) - 1)
      /\ b \in Buffer
  BY Zenon, <1>0, OwedCellsFacts DEF TypeOK, EnqueuingWord, OwedCells
<1>2. /\ producer'[p].pc = pc
      /\ producer'[p].value = v
      /\ producer'[p].seen = producer[p].seen
  BY Zenon, <1>0 DEF TypeOK, Goto
<1>3. /\ Owed' = Owed
      /\ \A q \in Producers \ {p} : producer'[q] = producer[q]
      /\ \A q \in Producers : Owes(q)' <=> Owes(q)
      /\ \A q \in Producers : Owes(q) => OwedCells(q)' = OwedCells(q)
  <2> DEFINE t == Goto(producer[p], pc)
  <2>1. t.pc = pc /\ t.seen = producer[p].seen /\ t.value = producer[p].value
    BY Zenon, <1>0 DEF TypeOK, Goto
  <2>2. producer' = [producer EXCEPT ![p] = t]
    BY Zenon
  <2> HIDE DEF t
  <2> QED
    BY Zenon, <1>0, <2>1, <2>2, OwedSameProducer
<1> HIDE DEF b, v, at
<1>4. /\ \A d \in Buffer \ {b} : cells'[d] = cells[d]
      /\ cells'[b] = [j \in Cell |-> IF j \in at..(at + n - 1)
                                     THEN v[j - at + 1] ELSE cells[b][j]]
  BY Zenon, <1>0, <1>1 DEF TypeOK, WriteCells, InsertInto, b, v, at
<1>5. \A j \in at..(at + n - 1) :
          j \in OwedCells(p) /\ v[j - at + 1] \in Element
  <2>1. n \in Nat /\ n <= Len(v)
    BY <1>1 DEF v
  <2>2. \A j \in at..(at + n - 1) : j - at + 1 \in 1..Len(v)
    BY <1>1, <2>1
  <2>3. \A i \in 1..Len(v) : v[i] \in Element
    BY <1>1
  <2> QED
    BY <1>1, <2>1, <2>2, <2>3
<1>6. \A d \in Buffer : \A i \in Cell \ Owed[d] : cells'[d][i] = cells[d][i]
  BY Zenon, <1>1, <1>4, <1>5
<1>7. /\ LockIsExclusive' /\ EnqueuingInv' /\ UnlockedInv'
      /\ \A c \in Consumers : ConsumerInv(c)'
      /\ CapacityIsPublished'
  BY Zenon, <1>3, <1>6, WritesInOwedCells
<1>8. TypeOK'
  <2>1. cells' \in [Buffer -> [Cell -> Element \cup {Uninit}]]
    <3>1. cells \in [Buffer -> [Cell -> Element \cup {Uninit}]]
      BY Zenon, <1>0 DEF TypeOK
    <3>2. cells' = [cells EXCEPT ![b] = cells'[b]]
      BY Zenon, <3>1, <1>1, <1>4 DEF WriteCells, b
    <3>3. cells'[b] \in [Cell -> Element \cup {Uninit}]
      <4>1. ASSUME NEW j \in Cell
            PROVE  (IF j \in at..(at + n - 1)
                    THEN v[j - at + 1] ELSE cells[b][j])
                       \in Element \cup {Uninit}
        BY Zenon, <1>1, <1>5, <3>1
      <4> QED
        BY Zenon, <1>4, <4>1
    <3> QED
      BY Zenon, <3>1, <3>2, <3>3
  <2>2. producer' \in [Producers -> [pc : ProducerPc,
                                     value : Values \cup {<<>>},
                                     seen : EnqueuingWord]]
    BY Zenon, <1>0 DEF TypeOK, Goto, ProducerPc
  <2> QED
    BY Zenon, <1>0, <2>1, <2>2 DEF TypeOK
<1>9. ASSUME NEW q \in Producers PROVE ProducerInv(q)'
  <2>1. CASE q = p
    <3>1. pc = "ack" => \A i \in OwedCells(p) : cells'[b][i] # Uninit
      BY <1>1, <1>4, <1>5, QueueAssumption DEF QueueAssumption, v
    <3> QED
      BY <1>0, <1>2, <1>3, <2>1, <3>1 DEF ProducerInv, Owes, b, v
  <2>2. CASE q # p
    <3>1. Owes(q) => \A i \in OwedCells(q) :
              cells'[producer[q].seen.index][i]
                = cells[producer[q].seen.index][i]
      <4>1. Owes(q) => OwedCells(q) \subseteq Cell
        BY Zenon, <1>0, OwedCellsFacts DEF IInv
      <4>2. Owes(q) /\ producer[q].seen.index = b =>
                OwedCells(q) \cap OwedCells(p) = {}
        BY Zenon, <1>0, <2>2 DEF IInv, DisjointOwed, b
      <4>3. producer[q].seen.index \in Buffer
        BY Zenon, <1>0 DEF TypeOK, EnqueuingWord
      <4> QED
        BY <1>4, <1>5, <4>1, <4>2, <4>3
    <3> QED
      BY <1>3, <2>2, <3>1 DEF IInv, ProducerInv, Owes
  <2> QED
    BY Zenon, <2>1, <2>2
<1>10. DisjointOwed'
  <2>1. \A q \in Producers : producer'[q].seen = producer[q].seen
    BY Zenon, <1>2, <1>3
  <2> QED
    BY Zenon, <1>3, <2>1 DEF IInv, DisjointOwed
<1> QED
  BY Zenon, <1>7, <1>8, <1>9, <1>10 DEF IInv

\* insert_into, whether it completes or panics, writes owed cells only.
LEMMA InsertValueInv ==
    ASSUME IInv, NEW p \in Producers, InsertValue(p) \/ InsertPanics(p)
    PROVE  IInv'
<1>1. Len(producer[p].value) \in Nat
  <2>1. producer[p].pc = "insert"
    BY Zenon DEF InsertValue, InsertPanics
  <2> QED
    BY <2>1, QueueAssumption DEF IInv, ProducerInv, QueueAssumption
<1>2. CASE InsertValue(p)
  <2>1. PICK n \in Nat : n = Len(producer[p].value)
    BY Zenon, <1>1
  <2>2. n \in 0..Len(producer[p].value)
    BY <2>1
  <2>3. WriteCells(p, n)
    BY Zenon, <1>2, <2>1 DEF InsertValue, WriteCells
  <2> QED
    BY Zenon, <1>2, <2>1, <2>2, <2>3, InsertInv DEF InsertValue
<1>3. CASE InsertPanics(p)
  <2>1. PICK n \in 0..(Len(producer[p].value) - 1) : WriteCells(p, n)
    BY Zenon, <1>3 DEF InsertPanics
  <2>2. n \in 0..Len(producer[p].value)
    BY <1>1
  <2> QED
    BY Zenon, <1>3, <2>1, <2>2, InsertInv DEF InsertPanics
<1> QED
  BY Zenon, <1>2, <1>3

\* The acknowledgement: the cells p owed are not owed any more.
LEMMA AcknowledgeOwed ==
    ASSUME IInv, NEW p \in Producers, Acknowledge(p)
    PROVE  LET b == producer[p].seen.index IN
           /\ Owed' = [Owed EXCEPT ![b] = @ \ OwedCells(p)]
           /\ \A q \in Producers \ {p} : producer'[q] = producer[q]
           /\ \A q \in Producers \ {p} : OwedCells(q)' = OwedCells(q)
           /\ \A q \in Producers : Owes(q)' <=> (Owes(q) /\ q # p)
<1> DEFINE b == producer[p].seen.index
<1>1. /\ producer'[p].pc = "idle"
      /\ \A q \in Producers \ {p} : producer'[q] = producer[q]
      /\ UNCHANGED buf_capacity
      /\ Owes(p)
      /\ b \in Buffer
  BY Zenon
     DEF IInv, TypeOK, Acknowledge, IdleProducer, buffer_vars, EnqueuingWord,
         Owes
<1>2. \A q \in Producers \ {p} : OwedCells(q)' = OwedCells(q)
  BY Zenon, <1>1 DEF OwedCells, InsertIndex
<1>3. \A q \in Producers : Owes(q)' <=> (Owes(q) /\ q # p)
  BY Zenon, <1>1 DEF Owes
<1>4. \A q \in Producers \ {p} : Owes(q) /\ producer[q].seen.index = b =>
          OwedCells(q) \cap OwedCells(p) = {}
  BY Zenon, <1>1 DEF IInv, DisjointOwed
<1> HIDE DEF b
<1>5. \A i \in Cell, d \in Buffer :
          (\E q \in Producers : Owes(q)' /\ producer'[q].seen.index = d
                                 /\ i \in OwedCells(q)')
          <=> /\ \E q \in Producers : Owes(q) /\ producer[q].seen.index = d
                                        /\ i \in OwedCells(q)
              /\ ~(d = b /\ i \in OwedCells(p))
  <2> TAKE i \in Cell, d \in Buffer
  <2>1. ASSUME NEW q \in Producers, Owes(q)', producer'[q].seen.index = d,
               i \in OwedCells(q)'
        PROVE  /\ Owes(q) /\ producer[q].seen.index = d /\ i \in OwedCells(q)
               /\ ~(d = b /\ i \in OwedCells(p))
    BY Zenon, <1>1, <1>2, <1>3, <1>4, <2>1
  <2>2. ASSUME NEW q \in Producers, Owes(q), producer[q].seen.index = d,
               i \in OwedCells(q), ~(d = b /\ i \in OwedCells(p))
        PROVE  Owes(q)' /\ producer'[q].seen.index = d /\ i \in OwedCells(q)'
    BY Zenon, <1>1, <1>2, <1>3, <2>2 DEF b
  <2> QED
    BY Zenon, <2>1, <2>2
<1>6. \A d \in Buffer : Owed'[d] =
          IF d = b THEN Owed[d] \ OwedCells(p) ELSE Owed[d]
  BY <1>5 DEF Owed
<1>7. /\ Owed = [d \in Buffer |-> Owed[d]]
      /\ Owed' = [d \in Buffer |-> Owed'[d]]
  BY Zenon DEF Owed
<1>8. Owed' = [Owed EXCEPT ![b] = @ \ OwedCells(p)]
  BY Zenon, <1>1, <1>6, <1>7
<1> QED
  BY Zenon, <1>1, <1>2, <1>3, <1>8 DEF b

\* Acknowledging k owed cells that hold a value.
LEMMA AcknowledgeMore ==
    ASSUME NEW s, NEW r, NEW n, NEW at \in Nat, NEW k \in Nat,
           Reserved(s, n), IsFiniteSet(s.owed), s.owed \subseteq Cell,
           s.acked \in Nat, s.capa \in Nat,
           at..(at + k - 1) \subseteq s.owed,
           \A i \in at..(at + k - 1) : s.cells[i] # Uninit,
           r.owed = s.owed \ (at..(at + k - 1)),
           r.acked = s.acked + k, r.capa = s.capa, r.cells = s.cells
    PROVE  Reserved(r, n)
<1> DEFINE I == at..(at + k - 1)
<1>0. at \in Int /\ at + k - 1 \in Int
  OBVIOUS
<1>1. /\ IsFiniteSet(I)
      /\ Cardinality(I) = IF at > at + k - 1 THEN 0
                          ELSE (at + k - 1) - at + 1
  BY Zenon, <1>0, FS_Interval
<1>2. Cardinality(I) = k
  BY <1>1
<1>3. IsFiniteSet(r.owed)
  BY Zenon, FS_Subset
<1> HIDE DEF I
<1>4. s.owed = r.owed \cup I /\ r.owed \cap I = {}
  BY Zenon DEF I
<1>5. Cardinality({}) = 0
  BY Zenon, FS_EmptySet
<1>6. Cardinality(s.owed) = Cardinality(r.owed) + Cardinality(I)
                               - Cardinality(r.owed \cap I)
  BY Zenon, <1>1, <1>3, <1>4, FS_Union
<1>7. Cardinality(r.owed \cap I) = 0
  BY <1>4, <1>5, Zenon
<1>8. Cardinality(r.owed) \in Nat
  BY Zenon, <1>3, FS_CardinalityType
<1>9. r.acked + Cardinality(r.owed) = s.acked + Cardinality(s.owed)
  BY <1>2, <1>6, <1>7, <1>8
<1>10. \A i \in Cell \ r.owed : r.cells[i] # Uninit <=> i < n
  <2> TAKE i \in Cell \ r.owed
  <2>1. CASE i \in I
    BY Zenon, <1>4, <2>1 DEF Reserved, I
  <2>2. CASE i \notin I
    BY Zenon, <1>4, <2>2 DEF Reserved
  <2> QED
    BY Zenon, <2>1, <2>2
<1> QED
  BY Zenon, <1>4, <1>9, <1>10 DEF Reserved

\* The fetch_add of try_enqueue: as many cells stop being owed as the
\* counter gains.
LEMMA AcknowledgeInv ==
    ASSUME IInv, NEW p \in Producers, Acknowledge(p)
    PROVE  IInv'
<1> DEFINE b == producer[p].seen.index
           k == Len(producer[p].value)
           at == InsertIndex(p)
<1>0. TypeOK /\ Owes(p) /\ ProducerInv(p) /\ producer[p].pc = "ack"
  BY Zenon DEF IInv, Acknowledge, Owes
<1>1. /\ k \in Nat \ {0} /\ at \in Nat
      /\ OwedCells(p) \subseteq Owed[b]
      /\ at \in OwedCells(p)
      /\ OwedCells(p) = at..(at + k - 1)
      /\ b \in Buffer
      /\ \A i \in OwedCells(p) : cells[b][i] # Uninit
  BY Zenon, <1>0, OwedCellsFacts
     DEF TypeOK, EnqueuingWord, OwedCells, ProducerInv
<1>2. /\ Owed' = [Owed EXCEPT ![b] = @ \ OwedCells(p)]
      /\ \A q \in Producers \ {p} : producer'[q] = producer[q]
      /\ \A q \in Producers \ {p} : OwedCells(q)' = OwedCells(q)
      /\ \A q \in Producers : Owes(q)' <=> (Owes(q) /\ q # p)
  BY Zenon, AcknowledgeOwed
<1>3. /\ producer' = [producer EXCEPT ![p] = IdleProducer]
      /\ buffers_length' = [buffers_length EXCEPT ![b] = @ + k]
      /\ UNCHANGED <<enqueuing_capacity, dequeuing_length, buf_capacity,
                     cells, capacity, consumer>>
  BY Zenon DEF Acknowledge, buffer_vars
<1> HIDE DEF b, k, at
<1>4. /\ Owed[b] \subseteq Cell /\ IsFiniteSet(Owed[b]) /\ Owed[b] # {}
      /\ buffers_length[b] \in Nat /\ buf_capacity[b] \in 0..MaxCapacity
  BY <1>0, <1>1, OwedFinite DEF TypeOK
<1>5. /\ Buf[b].owed = Owed[b] /\ Buf'[b].owed = Owed[b] \ OwedCells(p)
      /\ Buf[b].acked = buffers_length[b]
      /\ Buf'[b].acked = buffers_length[b] + k
      /\ Buf[b].capa = buf_capacity[b] /\ Buf'[b].capa = buf_capacity[b]
      /\ Buf[b].cells = cells[b] /\ Buf'[b].cells = cells[b]
      /\ \A d \in Buffer \ {b} : Buf'[d] = Buf[d]
  <2>1. /\ Owed'[b] = Owed[b] \ OwedCells(p)
        /\ \A d \in Buffer \ {b} : Owed'[d] = Owed[d]
    BY Zenon, <1>1, <1>2 DEF Owed
  <2>2. /\ buffers_length'[b] = buffers_length[b] + k
        /\ \A d \in Buffer \ {b} : buffers_length'[d] = buffers_length[d]
    BY Zenon, <1>0, <1>1, <1>3 DEF TypeOK
  <2> QED
    BY Zenon, <1>1, <1>3, <2>1, <2>2 DEF Buf
<1>6. \A n : Reserved(Buf[b], n) => Reserved(Buf'[b], n)
  <2> SUFFICES ASSUME NEW n, Reserved(Buf[b], n)
               PROVE  Reserved(Buf'[b], n)
    BY Zenon
  <2> DEFINE s == Buf[b]
             r == Buf'[b]
  <2>1. /\ IsFiniteSet(s.owed) /\ s.owed \subseteq Cell
        /\ s.acked \in Nat /\ s.capa \in Nat
        /\ at..(at + k - 1) \subseteq s.owed
        /\ \A i \in at..(at + k - 1) : s.cells[i] # Uninit
        /\ r.owed = s.owed \ (at..(at + k - 1))
        /\ r.acked = s.acked + k /\ r.capa = s.capa /\ r.cells = s.cells
        /\ at \in Nat /\ k \in Nat
    BY <1>1, <1>4, <1>5
  <2>2. Reserved(s, n)
    BY Zenon
  <2> HIDE DEF s, r
  <2>3. Reserved(r, n)
    BY Zenon, <2>1, <2>2, AcknowledgeMore
  <2> QED
    BY Zenon, <2>3 DEF r
<1>7. \A lo, hi : ~Settled(Buf[b], lo, hi)
  BY Zenon, <1>4, <1>5 DEF Settled
<1>8. \A n : ~Drained(Buf[b], n) /\ ~Prepared(Buf[b], n)
  BY Zenon, <1>7 DEF Drained, Prepared
<1>9. /\ enqueuing_capacity.index \in Buffer
      /\ Other \in Buffer /\ Other' = Other
  BY <1>0, <1>3 DEF TypeOK, EnqueuingWord, Other, Buffer
<1>10. EnqueuingInv'
  BY Zenon, <1>3, <1>5, <1>6, <1>9 DEF IInv, EnqueuingInv
<1>11. UnlockedInv'
  BY Zenon, <1>3, <1>5, <1>6, <1>8, <1>9 DEF IInv, UnlockedInv, IsDue
<1>12. ASSUME NEW c \in Consumers PROVE ConsumerInv(c)'
  <2>1. ConsumerInv(c) /\ consumer[c].index \in Buffer
    BY Zenon, <1>0 DEF IInv, TypeOK
  <2>2. CASE consumer[c].index = b /\ consumer[c].pc # "notify"
    <3>1. consumer[c].pc \in {"idle", "resize", "spin", "store"}
      BY Zenon, <1>4, <1>5, <1>7, <1>8, <2>1, <2>2, <1>0
         DEF ConsumerInv, TypeOK, ConsumerPc
    <3> QED
      BY Zenon, <1>3, <1>6, <1>8, <1>9, <2>1, <2>2, <3>1 DEF ConsumerInv, IsDue
  <2>3. CASE consumer[c].index # b /\ consumer[c].pc # "notify"
    BY Zenon, <1>3, <1>5, <1>9, <2>1, <2>3 DEF ConsumerInv
  <2>4. CASE consumer[c].pc = "notify"
    BY Zenon, <1>3, <1>5, <1>6, <1>9, <2>1, <2>4 DEF ConsumerInv
  <2> QED
    BY Zenon, <2>2, <2>3, <2>4
<1>13. LockIsExclusive' /\ CapacityIsPublished'
  BY Zenon, <1>3 DEF IInv, LockIsExclusive, CapacityIsPublished
<1>14. \E n : Reserved(Buf[b], n)
  <2>1. CASE b = enqueuing_capacity.index
    BY Zenon, <2>1 DEF IInv, EnqueuingInv
  <2>2. CASE b # enqueuing_capacity.index
    <3>1. b = Other
      BY <1>1, <1>9, <2>2 DEF Other, Buffer
    <3>2. CASE dequeuing_length # DEQUEUING_LOCKED
      BY Zenon, <1>8, <3>1, <3>2 DEF IInv, UnlockedInv, IsDue
    <3>3. CASE dequeuing_length = DEQUEUING_LOCKED
      <4>1. PICK c \in Consumers : consumer[c].pc # "idle"
        BY Zenon, <3>3 DEF IInv, LockIsExclusive
      <4>2. ConsumerInv(c) /\ consumer[c].pc \in ConsumerPc
        BY Zenon, <1>0 DEF IInv, TypeOK
      <4> QED
        BY Zenon, <1>4, <1>5, <1>7, <1>8, <3>1, <4>1, <4>2
           DEF ConsumerInv, ConsumerPc, IsDue
    <3> QED
      BY Zenon, <3>2, <3>3
  <2> QED
    BY Zenon, <2>1, <2>2
<1>15. TypeOK'
  <2>1. PICK n : Reserved(Buf'[b], n)
    BY Zenon, <1>6, <1>14
  <2>2. Cardinality(Buf'[b].owed) \in Nat
    BY Zenon, <1>4, <1>5, FS_Subset, FS_CardinalityType
  <2>3. buffers_length[b] + k \in 0..MaxCapacity
    <3>1. /\ n \in 0..buf_capacity[b]
          /\ buffers_length[b] + k + Cardinality(Buf'[b].owed) = n
      BY Zenon, <1>5, <2>1 DEF Reserved
    <3> DEFINE m == Cardinality(Buf'[b].owed)
    <3>2. m \in Nat /\ buffers_length[b] + k + m = n
      BY Zenon, <2>2, <3>1
    <3> HIDE DEF m
    <3> QED
      BY <1>1, <1>4, <3>1, <3>2, QueueAssumption DEF QueueAssumption
  <2>4. buffers_length' \in [Buffer -> 0..MaxCapacity]
    BY Zenon, <1>0, <1>1, <1>3, <2>3 DEF TypeOK
  <2>5. IdleProducer \in [pc : ProducerPc, value : Values \cup {<<>>},
                          seen : EnqueuingWord]
    BY QueueAssumption DEF IdleProducer, NoWord, EnqueuingCapacity,
       EnqueuingWord, ProducerPc, Buffer, QueueAssumption
  <2> QED
    BY Zenon, <1>0, <1>3, <2>4, <2>5 DEF TypeOK
<1>16. ASSUME NEW q \in Producers PROVE ProducerInv(q)'
  <2>1. CASE q = p
    <3>1. producer'[p].pc = "idle"
      BY Zenon, <1>0, <1>3 DEF TypeOK, IdleProducer
    <3> QED
      BY Zenon, <2>1, <3>1 DEF ProducerInv, Owes
  <2>2. CASE q # p
    BY <1>2, <1>3, <2>2 DEF IInv, ProducerInv, Owes
  <2> QED
    BY Zenon, <2>1, <2>2
<1>17. DisjointOwed'
  BY Zenon, <1>2 DEF IInv, DisjointOwed
<1> QED
  BY Zenon, <1>10, <1>11, <1>12, <1>13, <1>15, <1>16, <1>17 DEF IInv

\* close and reopen change the closed flag only.
LEMMA CloseInv ==
    ASSUME IInv, Close \/ Reopen
    PROVE  IInv'
<1>0. TypeOK /\ enqueuing_capacity.remaining \in Nat /\ Other \in Buffer
  BY QueueAssumption DEF IInv, TypeOK, EnqueuingWord, Other, Buffer,
     QueueAssumption
<1>1. /\ enqueuing_capacity' \in EnqueuingWord
      /\ enqueuing_capacity'.index = enqueuing_capacity.index
      /\ enqueuing_capacity'.remaining = enqueuing_capacity.remaining
      /\ UNCHANGED <<dequeuing_length, buffers_length, buf_capacity, cells,
                     capacity, producer, consumer>>
  BY Zenon, <1>0
     DEF Close, Reopen, SetClosed, TypeOK, EnqueuingWord, buffer_vars
<1>2. Owed' = Owed
  BY Zenon, <1>1, OwedUnchanged
<1>3. Buf' = Buf
  BY Zenon, <1>1, <1>2 DEF Buf
<1>4. /\ LockIsExclusive' /\ UnlockedInv' /\ CapacityIsPublished'
      /\ \A c \in Consumers : ConsumerInv(c)'
  BY <1>0, <1>1, <1>3, OtherUnchanged
<1>5. TypeOK'
  BY Zenon, <1>0, <1>1 DEF TypeOK
<1>6. EnqueuingInv'
  BY Zenon, <1>1, <1>3 DEF IInv, EnqueuingInv
<1>7. ASSUME NEW p \in Producers PROVE ProducerInv(p)'
  BY Zenon, <1>1 DEF IInv, ProducerInv, Owes, OwedCells, InsertIndex
<1>8. DisjointOwed'
  BY Zenon, <1>1 DEF IInv, DisjointOwed, Owes, OwedCells, InsertIndex
<1> QED
  BY Zenon, <1>4, <1>5, <1>6, <1>7, <1>8 DEF IInv
=============================================================================
