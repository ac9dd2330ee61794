------------------------- MODULE QueueContentProofs -------------------------
(***************************************************************************)
(* What each action of Queue does to the content of the queue: to what is  *)
(* due, Due, to what is reserved in the enqueuing buffer, Enqueued, and to *)
(* whether a batch is lent.                                                *)
(***************************************************************************)
EXTENDS QueueProducerProofs, QueueContent

CellValue == Element \cup {Uninit}

-----------------------------------------------------------------------------
(* Sequences.                                                              *)

\* The empty sequence is a sequence of anything.
LEMMA EmptySequence == \A S : <<>> \in Seq(S) /\ Len(<<>>) = 0
  OBVIOUS

\* A concatenation, element by element.
LEMMA ConcatIs ==
    ASSUME NEW S, NEW s \in Seq(S), NEW r \in Seq(S), NEW u \in Seq(S),
           Len(u) = Len(s) + Len(r),
           \A i \in 1..Len(u) :
               u[i] = IF i <= Len(s) THEN s[i] ELSE r[i - Len(s)]
    PROVE  u = s \o r
<1>1. \A v \in Seq(S) : v = [i \in 1..Len(v) |-> v[i]]
  OBVIOUS
<1>2. /\ s \o r \in Seq(S) /\ Len(s \o r) = Len(u)
      /\ \A i \in 1..Len(u) :
             (s \o r)[i] = IF i <= Len(s) THEN s[i] ELSE r[i - Len(s)]
  OBVIOUS
<1>3. /\ u = [i \in 1..Len(u) |-> u[i]]
      /\ s \o r = [i \in 1..Len(u) |-> (s \o r)[i]]
  BY Zenon, <1>1, <1>2
<1>4. \A i \in 1..Len(u) : u[i] = (s \o r)[i]
  BY Zenon, <1>2
<1>5. [i \in 1..Len(u) |-> u[i]] = [i \in 1..Len(u) |-> (s \o r)[i]]
  BY Zenon, <1>4
<1> QED
  BY Zenon, <1>3, <1>5

-----------------------------------------------------------------------------
(* The content of the cells.                                               *)

\* A producer that has yet to write a cell is the only one: the cell will
\* hold its element of that producer's value.
LEMMA ContentToCome ==
    \A b \in Buffer, p \in Producers : \A i \in Cell :
        IInv /\ p \in Writers(b, i) =>
            /\ Content(b, i) = producer[p].value[i - InsertIndex(p) + 1]
            /\ producer[p].value[i - InsertIndex(p) + 1] \in Element
            /\ i - InsertIndex(p) + 1 \in 1..Len(producer[p].value)
<1> SUFFICES ASSUME NEW b \in Buffer, NEW p \in Producers, NEW i \in Cell,
                    IInv, p \in Writers(b, i)
             PROVE  /\ Content(b, i) = producer[p].value[i - InsertIndex(p) + 1]
                    /\ producer[p].value[i - InsertIndex(p) + 1] \in Element
                    /\ i - InsertIndex(p) + 1 \in 1..Len(producer[p].value)
  BY Zenon
<1>1. \A q \in Writers(b, i) : /\ q \in Producers /\ Owes(q)
                               /\ producer[q].seen.index = b
                               /\ i \in OwedCells(q)
  BY Zenon DEF Writers, Owes
<1>2. \A q \in Writers(b, i) : q = p
  BY Zenon, <1>1 DEF IInv, DisjointOwed
<1>3. Content(b, i) = producer[p].value[i - InsertIndex(p) + 1]
  <2> DEFINE q == CHOOSE q \in Writers(b, i) : TRUE
  <2>1. q \in Writers(b, i)
    BY Zenon
  <2>2. q = p
    BY Zenon, <1>2, <2>1
  <2>3. Content(b, i) = producer[q].value[i - InsertIndex(q) + 1]
    BY Zenon DEF Content
  <2> QED
    BY Zenon, <2>2, <2>3
<1>4. /\ producer[p].value \in Seq(Element)
      /\ Len(producer[p].value) \in Nat
      /\ InsertIndex(p) \in Nat
      /\ i \in InsertIndex(p)..(InsertIndex(p) + Len(producer[p].value) - 1)
  BY Zenon, <1>1, OwedCellsFacts DEF IInv, OwedCells
<1>5. i - InsertIndex(p) + 1 \in 1..Len(producer[p].value)
  BY <1>4
<1>6. producer[p].value[i - InsertIndex(p) + 1] \in Element
  BY <1>4, <1>5
<1> QED
  BY Zenon, <1>3, <1>5, <1>6

\* The others are as they are.
LEMMA ContentThere ==
    \A b \in Buffer : \A i \in Cell :
        Writers(b, i) = {} => Content(b, i) = cells[b][i]
  BY Zenon DEF Content

\* The content of a cell is an element, or Uninit.
LEMMA ContentType ==
    \A b \in Buffer : \A i \in Cell : IInv => Content(b, i) \in CellValue
<1> SUFFICES ASSUME NEW b \in Buffer, NEW i \in Cell, IInv
             PROVE  Content(b, i) \in CellValue
  BY Zenon
<1>1. CASE Writers(b, i) = {}
  <2>1. cells[b][i] \in CellValue
    BY DEF IInv, TypeOK, CellValue
  <2> QED
    BY Zenon, <1>1, <2>1, ContentThere
<1>2. ASSUME NEW p \in Writers(b, i) PROVE Content(b, i) \in CellValue
  <2>1. p \in Producers
    BY Zenon DEF Writers
  <2> QED
    BY Zenon, <2>1, ContentToCome DEF CellValue
<1> QED
  BY Zenon, <1>1, <1>2

\* In a buffer nobody owes cells of, nobody has cells to write.
LEMMA NoWriters ==
    \A b \in Buffer : \A i \in Cell :
        IInv /\ Owed[b] = {} => Writers(b, i) = {}
  BY Zenon, NobodyOwes DEF IInv, Writers, Owes

\* A region inside its buffer is a sequence of cell values.
LEMMA RegionType ==
    \A b \in Buffer : \A start, n \in Nat :
        IInv /\ start + n <= buf_capacity[b] =>
            /\ Region(b, start, n) \in Seq(CellValue)
            /\ Len(Region(b, start, n)) = n
            /\ \A i \in 1..n : Region(b, start, n)[i] = Content(b, start + i - 1)
<1> SUFFICES ASSUME NEW b \in Buffer, NEW start \in Nat, NEW n \in Nat, IInv,
                    start + n <= buf_capacity[b]
             PROVE  /\ Region(b, start, n) \in Seq(CellValue)
                    /\ Len(Region(b, start, n)) = n
                    /\ \A i \in 1..n :
                          Region(b, start, n)[i] = Content(b, start + i - 1)
  BY Zenon
<1>1. \A i \in 1..n : start + i - 1 \in Cell
  BY QueueAssumption DEF IInv, TypeOK, Cell, QueueAssumption
<1>2. \A i \in 1..n : Content(b, start + i - 1) \in CellValue
  BY Zenon, <1>1, ContentType
<1> QED
  BY <1>2 DEF Region

\* A region of no cells.
LEMMA RegionEmpty ==
    \A b, start : Region(b, start, 0) = <<>>
<1> SUFFICES ASSUME NEW b, NEW start PROVE Region(b, start, 0) = <<>>
  BY Zenon
<1>1. 1..0 = {}
  OBVIOUS
<1> QED
  BY <1>1 DEF Region

-----------------------------------------------------------------------------
(* What is due.                                                            *)

\* What is due on a buffer lies inside it, and starts at its first cell as
\* long as somebody owes cells of it.
LEMMA DueRange ==
    \A b \in Buffer : \A n \in Nat : IInv /\ IsDue(Buf[b], n) =>
        /\ DueStart(b, n) \in Nat
        /\ DueStart(b, n) + n <= buf_capacity[b]
        /\ Owed[b] # {} => DueStart(b, n) = 0 /\ Reserved(Buf[b], n)
        /\ buffers_length[b] >= n =>
              /\ DueStart(b, n) = buffers_length[b] - n
              /\ n > 0 => Owed[b] = {}
<1> SUFFICES ASSUME NEW b \in Buffer, NEW n \in Nat, IInv, IsDue(Buf[b], n)
             PROVE  /\ DueStart(b, n) \in Nat
                    /\ DueStart(b, n) + n <= buf_capacity[b]
                    /\ Owed[b] # {} => DueStart(b, n) = 0 /\ Reserved(Buf[b], n)
                    /\ buffers_length[b] >= n =>
                          /\ DueStart(b, n) = buffers_length[b] - n
                          /\ n > 0 => Owed[b] = {}
  BY Zenon
<1>1. /\ Buf[b].owed = Owed[b] /\ Buf[b].cells = cells[b]
      /\ Buf[b].acked = buffers_length[b] /\ buffers_length[b] \in Nat
      /\ Buf[b].capa = buf_capacity[b] /\ buf_capacity[b] \in Nat
      /\ Cardinality(Owed[b]) \in Nat
      /\ Cardinality(Owed[b]) = 0 <=> Owed[b] = {}
  BY OwedFinite, QueueAssumption DEF IInv, TypeOK, Buf, QueueAssumption
<1>2. CASE Reserved(Buf[b], n)
  <2>1. n <= buf_capacity[b] /\ buffers_length[b] + Cardinality(Owed[b]) = n
    BY <1>1, <1>2 DEF Reserved
  <2> QED
    BY <1>1, <1>2, <2>1 DEF DueStart
<1>3. CASE Drained(Buf[b], n)
  <2>1. /\ buffers_length[b] >= n /\ buffers_length[b] <= buf_capacity[b]
        /\ Owed[b] = {}
    BY <1>1, <1>3 DEF Drained, Settled
  <2> QED
    BY <1>1, <2>1 DEF DueStart
<1> QED
  BY Zenon, <1>2, <1>3 DEF IsDue

\* The consumer past lock_dequeuing is unique.
LEMMA DueHeld ==
    \A c \in Consumers : IInv /\ consumer[c].pc # "idle" =>
        /\ Due = DueTo(c)
        /\ Lent <=> HasSlice(c)
<1> SUFFICES ASSUME NEW c \in Consumers, IInv, consumer[c].pc # "idle"
             PROVE  Due = DueTo(c) /\ (Lent <=> HasSlice(c))
  BY Zenon
<1>1. \A d \in Consumers : consumer[d].pc # "idle" => d = c
  BY Zenon DEF IInv, LockIsExclusive
<1>2. dequeuing_length = DEQUEUING_LOCKED
  BY Zenon DEF IInv, LockIsExclusive
<1>3. (CHOOSE d \in Consumers : consumer[d].pc # "idle") = c
  BY Zenon, <1>1
<1>4. Lent <=> HasSlice(c)
  BY Zenon, <1>1 DEF Lent, HasSlice
<1> QED
  BY Zenon, <1>2, <1>3, <1>4 DEF Due

\* What is due while nobody holds the dequeuing lock.
LEMMA DueFree ==
    IInv /\ dequeuing_length # DEQUEUING_LOCKED =>
        /\ Due = DueFrom(dequeuing_length.index, dequeuing_length.length)
        /\ ~Lent
  BY Zenon DEF Due, Lent, HasSlice, IInv, LockIsExclusive

\* What is due to a consumer, by what it is doing.
LEMMA DueToBy ==
    \A c \in Consumers :
        /\ consumer[c].pc \in {"spin", "store"} =>
              DueTo(c) = DueFrom(consumer[c].index, consumer[c].length)
        /\ HasSlice(c) =>
              DueTo(c) = Region(consumer[c].index, consumer[c].start,
                                consumer[c].length)
        /\ consumer[c].pc = "notify" =>
              DueTo(c) = DueFrom(consumer[c].seen.index, SwappedLength(c))
        /\ consumer[c].pc \in {"resize", "insert", "load", "swap", "panicked"} =>
              DueTo(c) = <<>>
<1> SUFFICES ASSUME NEW c \in Consumers
             PROVE  /\ consumer[c].pc \in {"spin", "store"} =>
                          DueTo(c) = DueFrom(consumer[c].index,
                                             consumer[c].length)
                    /\ HasSlice(c) =>
                          DueTo(c) = Region(consumer[c].index,
                                       consumer[c].start, consumer[c].length)
                    /\ consumer[c].pc = "notify" =>
                          DueTo(c) = DueFrom(consumer[c].seen.index,
                                             SwappedLength(c))
                    /\ consumer[c].pc \in {"resize", "insert", "load", "swap",
                                           "panicked"} => DueTo(c) = <<>>
  BY Zenon
<1>1. CASE consumer[c].pc \in {"spin", "store"}
  BY Zenon, <1>1 DEF DueTo, HasSlice
<1>2. CASE HasSlice(c)
  BY Zenon, <1>2 DEF DueTo, HasSlice
<1>3. CASE consumer[c].pc = "notify"
  BY Zenon, <1>3 DEF DueTo, HasSlice
<1>4. CASE consumer[c].pc \in {"resize", "insert", "load", "swap", "panicked"}
  BY Zenon, <1>4 DEF DueTo, HasSlice
<1> QED
  BY Zenon, <1>1, <1>2, <1>3, <1>4

\* What is due lies in the buffer that is not the enqueuing one.
LEMMA DueFromType ==
    \A b \in Buffer : \A n \in Nat : IInv /\ IsDue(Buf[b], n) =>
        /\ DueFrom(b, n) \in Seq(CellValue)
        /\ Len(DueFrom(b, n)) = n
        /\ n = 0 => DueFrom(b, n) = <<>>
  BY Zenon, DueRange, RegionType, RegionEmpty DEF DueFrom

\* The handle of a consumer covers the cells up to the acknowledged length,
\* which nobody owes.
LEMMA SliceFacts ==
    \A c \in Consumers : IInv /\ HasSlice(c) =>
        /\ consumer[c].index \in Buffer
        /\ consumer[c].start \in Nat /\ consumer[c].length \in Nat
        /\ buffers_length[consumer[c].index]
              = consumer[c].start + consumer[c].length
        /\ consumer[c].start + consumer[c].length
              <= buf_capacity[consumer[c].index]
        /\ Owed[consumer[c].index] = {}
        /\ consumer[c].index = Other
<1> SUFFICES ASSUME NEW c \in Consumers, IInv, HasSlice(c)
             PROVE  /\ consumer[c].index \in Buffer
                    /\ consumer[c].start \in Nat /\ consumer[c].length \in Nat
                    /\ buffers_length[consumer[c].index]
                          = consumer[c].start + consumer[c].length
                    /\ consumer[c].start + consumer[c].length
                          <= buf_capacity[consumer[c].index]
                    /\ Owed[consumer[c].index] = {}
                    /\ consumer[c].index = Other
  BY Zenon
<1>1. consumer[c] \in ConsumerRecord /\ consumer[c].pc \in {"slice", "iter"}
  BY Zenon, HolderFacts DEF HasSlice
<1>2. /\ consumer[c].index \in Buffer
      /\ consumer[c].start \in Nat /\ consumer[c].length \in Nat
  BY <1>1, HolderFacts DEF ConsumerRecord
<1>3. /\ Buf[consumer[c].index].acked = consumer[c].start + consumer[c].length
      /\ Buf[consumer[c].index].acked <= Buf[consumer[c].index].capa
      /\ Buf[consumer[c].index].owed = {}
      /\ consumer[c].index = Other
  BY Zenon, <1>1, HolderFacts DEF ConsumerInv, Settled
<1> QED
  BY Zenon, <1>2, <1>3, HolderFacts

\* What a consumer past the swap waits for is reserved in the buffer it has
\* swapped out.
LEMMA NotifyFacts ==
    \A c \in Consumers : IInv /\ consumer[c].pc = "notify" =>
        /\ consumer[c].seen.index \in Buffer
        /\ consumer[c].seen.index = Other
        /\ SwappedLength(c) \in Nat
        /\ IsDue(Buf[consumer[c].seen.index], SwappedLength(c))
<1> SUFFICES ASSUME NEW c \in Consumers, IInv, consumer[c].pc = "notify"
             PROVE  /\ consumer[c].seen.index \in Buffer
                    /\ consumer[c].seen.index = Other
                    /\ SwappedLength(c) \in Nat
                    /\ IsDue(Buf[consumer[c].seen.index], SwappedLength(c))
  BY Zenon
<1>1. /\ consumer[c].seen.index \in Buffer
      /\ consumer[c].seen.index = Other
  BY Zenon, HolderFacts DEF ConsumerInv
<1>2. Reserved(Buf[consumer[c].seen.index], SwappedLength(c))
  BY Zenon, HolderFacts DEF ConsumerInv, SwappedLength
<1>3. Buf[consumer[c].seen.index].capa \in Nat
  BY <1>1, HolderFacts
<1>4. SwappedLength(c) \in Nat
  BY <1>2, <1>3 DEF Reserved
<1> QED
  BY Zenon, <1>1, <1>2, <1>4 DEF IsDue

\* What IInv says of the buffer a consumer waits for or gives back.
LEMMA SpinFacts ==
    \A c \in Consumers : IInv /\ consumer[c].pc \in {"spin", "store"} =>
        /\ consumer[c].index \in Buffer
        /\ consumer[c].index = Other
        /\ consumer[c].length \in Nat
        /\ IsDue(Buf[consumer[c].index], consumer[c].length)
        /\ consumer[c].pc = "spin" => consumer[c].length > 0
<1> SUFFICES ASSUME NEW c \in Consumers, IInv,
                    consumer[c].pc \in {"spin", "store"}
             PROVE  /\ consumer[c].index \in Buffer
                    /\ consumer[c].index = Other
                    /\ consumer[c].length \in Nat
                    /\ IsDue(Buf[consumer[c].index], consumer[c].length)
                    /\ consumer[c].pc = "spin" => consumer[c].length > 0
  BY Zenon
<1>1. /\ consumer[c].index \in Buffer
      /\ consumer[c].length \in Nat
  BY HolderFacts DEF ConsumerRecord
<1>2. /\ consumer[c].index = Other
      /\ IsDue(Buf[consumer[c].index], consumer[c].length)
      /\ consumer[c].pc = "spin" => consumer[c].length > 0
  BY Zenon, HolderFacts DEF ConsumerInv
<1> QED
  BY Zenon, <1>1, <1>2

\* What IInv says of the dequeuing buffer while the word is unlocked.
LEMMA UnlockedFacts ==
    IInv /\ dequeuing_length # DEQUEUING_LOCKED =>
        /\ dequeuing_length.index \in Buffer
        /\ dequeuing_length.index = Other
        /\ dequeuing_length.length \in Nat
        /\ IsDue(Buf[dequeuing_length.index], dequeuing_length.length)
<1> SUFFICES ASSUME IInv, dequeuing_length # DEQUEUING_LOCKED
             PROVE  /\ dequeuing_length.index \in Buffer
                    /\ dequeuing_length.index = Other
                    /\ dequeuing_length.length \in Nat
                    /\ IsDue(Buf[dequeuing_length.index],
                             dequeuing_length.length)
  BY Zenon
<1>1. dequeuing_length \in DequeuingWord
  BY Zenon DEF IInv, TypeOK
<1>2. /\ dequeuing_length.index = Other
      /\ IsDue(Buf[dequeuing_length.index], dequeuing_length.length)
  BY Zenon DEF IInv, UnlockedInv
<1> QED
  BY <1>1, <1>2, QueueAssumption DEF DequeuingWord, QueueAssumption

\* What is due is a sequence.
LEMMA DueType ==
    IInv => Due \in Seq(CellValue)
<1> SUFFICES ASSUME IInv PROVE Due \in Seq(CellValue)
  BY Zenon
<1>1. CASE dequeuing_length # DEQUEUING_LOCKED
  BY Zenon, <1>1, DueFree, UnlockedFacts, DueFromType
<1>2. CASE dequeuing_length = DEQUEUING_LOCKED
  <2>1. PICK c \in Consumers : consumer[c].pc # "idle"
    BY Zenon, <1>2 DEF IInv, LockIsExclusive
  <2>2. Due = DueTo(c)
    BY Zenon, <2>1, DueHeld
  <2>3. consumer[c].pc \in ConsumerPc
    BY Zenon, HolderFacts DEF ConsumerRecord
  <2>4. CASE consumer[c].pc \in {"spin", "store"}
    BY Zenon, <2>2, <2>4, DueToBy, SpinFacts, DueFromType
  <2>5. CASE HasSlice(c)
    <3>1. DueTo(c) = Region(consumer[c].index, consumer[c].start,
                            consumer[c].length)
      BY Zenon, <2>5, DueToBy
    <3> QED
      BY <2>2, <2>5, <3>1, SliceFacts, RegionType
  <2>6. CASE consumer[c].pc = "notify"
    BY Zenon, <2>2, <2>6, DueToBy, NotifyFacts, DueFromType
  <2>7. CASE consumer[c].pc \in {"resize", "insert", "load", "swap", "panicked"}
    <3>1. Due = <<>>
      BY Zenon, <2>2, <2>7, DueToBy
    <3> QED
      BY Zenon, <3>1, EmptySequence
  <2> QED
    BY Zenon, <2>1, <2>3, <2>4, <2>5, <2>6, <2>7 DEF ConsumerPc, HasSlice
<1> QED
  BY Zenon, <1>1, <1>2

\* What is reserved in the enqueuing buffer is a sequence, of the length the
\* enqueuing word gives.
LEMMA EnqueuedType ==
    IInv => /\ Enqueued \in Seq(CellValue)
            /\ enqueuing_capacity.index \in Buffer
            /\ buf_capacity[enqueuing_capacity.index] \in 0..MaxCapacity
            /\ MaxCapacity \in Nat
            /\ buf_capacity[enqueuing_capacity.index]
                  - enqueuing_capacity.remaining \in Nat
            /\ enqueuing_capacity.remaining \in Nat
            /\ Len(Enqueued) = buf_capacity[enqueuing_capacity.index]
                                 - enqueuing_capacity.remaining
<1> DEFINE b == enqueuing_capacity.index
           n == buf_capacity[b] - enqueuing_capacity.remaining
<1> SUFFICES ASSUME IInv
             PROVE  /\ Enqueued \in Seq(CellValue)
                    /\ b \in Buffer /\ buf_capacity[b] \in 0..MaxCapacity
                    /\ MaxCapacity \in Nat /\ n \in Nat
                    /\ enqueuing_capacity.remaining \in Nat
                    /\ Len(Enqueued) = n
  BY Zenon
<1>1. /\ b \in Buffer /\ buf_capacity[b] \in 0..MaxCapacity
      /\ MaxCapacity \in Nat
      /\ enqueuing_capacity.remaining \in Nat
      /\ Buf[b].capa = buf_capacity[b]
  BY QueueAssumption DEF IInv, TypeOK, EnqueuingWord, QueueAssumption, Buf
<1>2. n \in Nat /\ n <= buf_capacity[b]
  <2>1. Reserved(Buf[b], n)
    BY Zenon DEF IInv, EnqueuingInv
  <2>2. n \in 0..Buf[b].capa
    BY Zenon, <2>1 DEF Reserved
  <2> QED
    BY <1>1, <2>2
<1>3. Region(b, 0, n) \in Seq(CellValue) /\ Len(Region(b, 0, n)) = n
  <2>1. 0 \in Nat /\ 0 + n <= buf_capacity[b]
    BY <1>2
  <2> HIDE DEF n, b
  <2> QED
    BY Zenon, <1>1, <1>2, <2>1, RegionType
<1> QED
  BY Zenon, <1>1, <1>2, <1>3 DEF Enqueued

\* The holder of a handle reads what is due.
LEMMA BatchIsDue ==
    IInv => Batch = IF Lent THEN Due ELSE <<>>
<1>0. ~Lent => Batch = <<>>
  BY Zenon DEF Batch
<1> SUFFICES ASSUME IInv, Lent PROVE Batch = Due
  BY Zenon, <1>0
<1> DEFINE c == CHOOSE d \in Consumers : HasSlice(d)
           t == consumer[c]
<1>1. c \in Consumers /\ HasSlice(c)
  BY Zenon DEF Lent
<1> HIDE DEF c
<1>2. Due = Region(t.index, t.start, t.length)
  BY Zenon, <1>1, DueHeld, DueToBy DEF HasSlice
<1>3. \A i \in 1..t.length :
          Content(t.index, t.start + i - 1) = cells[t.index][t.start + i - 1]
  <2> SUFFICES ASSUME NEW i \in 1..t.length
               PROVE  Content(t.index, t.start + i - 1)
                        = cells[t.index][t.start + i - 1]
    BY Zenon
  <2>1. /\ t.index \in Buffer /\ t.start \in Nat /\ t.length \in Nat
        /\ t.start + t.length <= buf_capacity[t.index]
        /\ Owed[t.index] = {}
    BY Zenon, <1>1, SliceFacts
  <2>2. t.start + i - 1 \in Cell
    <3>1. buf_capacity[t.index] \in 0..MaxCapacity /\ MaxCapacity \in Nat
      BY Zenon, <1>1, <2>1, HolderFacts
    <3> HIDE DEF t
    <3> QED
      BY <2>1, <3>1 DEF Cell
  <2> QED
    BY Zenon, <2>1, <2>2, NoWriters, ContentThere
<1>4. Batch = [i \in 1..t.length |-> cells[t.index][t.start + i - 1]]
  BY Zenon DEF Batch, c
<1> QED
  BY Zenon, <1>2, <1>3, <1>4 DEF Region

\* The abstract state in terms of what is due and what is enqueued.
LEMMA View ==
    IInv => /\ Due \in Seq(CellValue)
            /\ Enqueued \in Seq(CellValue)
            /\ Batch = IF Lent THEN Due ELSE <<>>
  BY Zenon, DueType, EnqueuedType, BatchIsDue

\* View in the next state.
LEMMA ViewNext ==
    (IInv => /\ Due \in Seq(CellValue)
             /\ Enqueued \in Seq(CellValue)
             /\ Batch = IF Lent THEN Due ELSE <<>>)'
  BY View, PTL

\* DueHeld in the next state.
LEMMA DueHeldNext ==
    (\A c \in Consumers : IInv /\ consumer[c].pc # "idle" =>
         /\ Due = DueTo(c)
         /\ Lent <=> HasSlice(c))'
  BY DueHeld, PTL

\* DueFree in the next state.
LEMMA DueFreeNext ==
    (IInv /\ dequeuing_length # DEQUEUING_LOCKED =>
         /\ Due = DueFrom(dequeuing_length.index, dequeuing_length.length)
         /\ ~Lent)'
  BY DueFree, PTL

\* DueToBy in the next state.
LEMMA DueToByNext ==
    (\A c \in Consumers :
         /\ consumer[c].pc \in {"spin", "store"} =>
               DueTo(c) = DueFrom(consumer[c].index, consumer[c].length)
         /\ HasSlice(c) =>
               DueTo(c) = Region(consumer[c].index, consumer[c].start,
                                 consumer[c].length)
         /\ consumer[c].pc = "notify" =>
               DueTo(c) = DueFrom(consumer[c].seen.index, SwappedLength(c))
         /\ consumer[c].pc \in {"resize", "insert", "load", "swap", "panicked"} =>
               DueTo(c) = <<>>)'
  BY DueToBy, PTL

-----------------------------------------------------------------------------
(* The steps of BatchQueue, in these terms.                                *)

SameClosed == enqueuing_capacity'.closed = enqueuing_capacity.closed

Stutters ==
    Due' = Due /\ Enqueued' = Enqueued /\ Lent' = Lent /\ SameClosed

SetsClosed ==
    /\ Due' = Due /\ Enqueued' = Enqueued /\ Lent' = Lent
    /\ enqueuing_capacity'.closed \in BOOLEAN

Enqueues(value) ==
    /\ ~enqueuing_capacity.closed
    /\ Due' = Due /\ Enqueued' = Enqueued \o value /\ Lent' = Lent
    /\ SameClosed

\* The buffers are swapped; the new enqueuing one holds inserted elements.
Swaps ==
    /\ ~Lent /\ ~Lent'
    /\ Due = <<>> /\ Due' = Enqueued
    /\ \A i \in 1..Len(Enqueued') : Enqueued'[i] \in InsertedElements
    /\ SameClosed

Borrows ==
    /\ ~Lent /\ Lent'
    /\ Due # <<>> /\ Due' = Due /\ Enqueued' = Enqueued
    /\ SameClosed

Drains ==
    /\ Lent /\ Lent'
    /\ Due # <<>> /\ Due' = Tail(Due) /\ Enqueued' = Enqueued
    /\ SameClosed

GivesBack ==
    /\ Lent /\ ~Lent'
    /\ Due' = Due /\ Enqueued' = Enqueued
    /\ SameClosed

Consumes ==
    /\ Lent /\ ~Lent'
    /\ Due' = <<>> /\ Enqueued' = Enqueued
    /\ SameClosed

\* What a step of the queue may do to its content.
ContentStep ==
    \/ Stutters \/ SetsClosed
    \/ \E value \in Values : Enqueues(value)
    \/ Swaps \/ Borrows \/ Drains \/ GivesBack \/ Consumes

\* How each of them is recognized.  A step that shows nothing.
LEMMA StutterStep ==
    ASSUME Due' = Due, Enqueued' = Enqueued, Lent' = Lent,
           enqueuing_capacity'.closed = enqueuing_capacity.closed
    PROVE  ContentStep
  BY Zenon DEF ContentStep, Stutters, SameClosed

\* close and reopen.
LEMMA CloseStep ==
    ASSUME Due' = Due, Enqueued' = Enqueued, Lent' = Lent,
           enqueuing_capacity'.closed \in BOOLEAN
    PROVE  ContentStep
  BY Zenon DEF ContentStep, SetsClosed

\* A reservation.
LEMMA EnqueueStep ==
    ASSUME NEW value \in Values,
           Due' = Due, Enqueued' = Enqueued \o value, Lent' = Lent,
           ~enqueuing_capacity.closed,
           enqueuing_capacity'.closed = enqueuing_capacity.closed
    PROVE  ContentStep
  BY Zenon DEF ContentStep, Enqueues, SameClosed

\* A swap of the buffers.
LEMMA SwapStep ==
    ASSUME ~Lent, ~Lent', Due = <<>>, Due' = Enqueued,
           \A i \in 1..Len(Enqueued') : Enqueued'[i] \in InsertedElements,
           enqueuing_capacity'.closed = enqueuing_capacity.closed
    PROVE  ContentStep
  BY Zenon DEF ContentStep, Swaps, SameClosed

\* A slice is handed out.
LEMMA BorrowStep ==
    ASSUME ~Lent, Lent', Due # <<>>, Due' = Due, Enqueued' = Enqueued,
           enqueuing_capacity'.closed = enqueuing_capacity.closed
    PROVE  ContentStep
  BY Zenon DEF ContentStep, Borrows, SameClosed

\* An iterator takes a value.
LEMMA DrainStep ==
    ASSUME Lent, Lent', Due # <<>>, Due' = Tail(Due), Enqueued' = Enqueued,
           enqueuing_capacity'.closed = enqueuing_capacity.closed
    PROVE  ContentStep
  BY Zenon DEF ContentStep, Drains, SameClosed

\* A handle is requeued.
LEMMA GiveBackStep ==
    ASSUME Lent, ~Lent', Due' = Due, Enqueued' = Enqueued,
           enqueuing_capacity'.closed = enqueuing_capacity.closed
    PROVE  ContentStep
  BY Zenon DEF ContentStep, GivesBack, SameClosed

\* A handle is released.
LEMMA ConsumeStep ==
    ASSUME Lent, ~Lent', Due' = <<>>, Enqueued' = Enqueued,
           enqueuing_capacity'.closed = enqueuing_capacity.closed
    PROVE  ContentStep
  BY Zenon DEF ContentStep, Consumes, SameClosed

-----------------------------------------------------------------------------
(* What a step leaves of the content of the cells.                         *)

\* How the content of a cell is found, in this state and in the next one.
ContentFacts ==
    \A b \in Buffer : \A i \in Cell : IInv =>
        /\ Writers(b, i) = {} => Content(b, i) = cells[b][i]
        /\ \A p \in Producers : p \in Writers(b, i) =>
              Content(b, i) = producer[p].value[i - InsertIndex(p) + 1]

\* The content of a cell, in this state.
LEMMA ContentIs == ContentFacts
  BY Zenon, ContentThere, ContentToCome DEF ContentFacts

\* The content of a cell, in the next one.
LEMMA ContentIsNext == ContentFacts'
  BY ContentIs, PTL

\* A cell whose writers stay the same, and which is not written behind them.
LEMMA ContentSame ==
    ASSUME IInv, IInv', NEW b \in Buffer, NEW i \in Cell,
           \A p \in Producers : p \in Writers(b, i)' <=> p \in Writers(b, i),
           \A p \in Producers : p \in Writers(b, i) =>
               /\ producer'[p].value = producer[p].value
               /\ InsertIndex(p)' = InsertIndex(p),
           Writers(b, i) = {} => cells'[b][i] = cells[b][i]
    PROVE  Content(b, i)' = Content(b, i)
<1>1. CASE Writers(b, i) = {}
  <2>1. Writers(b, i)' = {}
    BY Zenon, <1>1 DEF Writers
  <2> QED
    BY <1>1, <2>1, ContentIs, ContentIsNext DEF ContentFacts
<1>2. CASE Writers(b, i) # {}
  <2>1. PICK p \in Producers : p \in Writers(b, i)
    BY Zenon, <1>2 DEF Writers
  <2>2. p \in Writers(b, i)'
    BY Zenon, <2>1
  <2>3. Content(b, i) = producer[p].value[i - InsertIndex(p) + 1]
    BY Zenon, <2>1, ContentIs DEF ContentFacts
  <2>4. Content(b, i)' = producer'[p].value[i - InsertIndex(p)' + 1]
    BY Zenon, <2>2, ContentIsNext DEF ContentFacts
  <2> QED
    BY Zenon, <2>1, <2>3, <2>4
<1> QED
  BY Zenon, <1>1, <1>2

\* Steps of consumers: no producer moves.
LEMMA ContentFrame ==
    ASSUME IInv, IInv', UNCHANGED producer, NEW b \in Buffer, NEW i \in Cell,
           buf_capacity'[b] = buf_capacity[b], cells'[b][i] = cells[b][i]
    PROVE  Content(b, i)' = Content(b, i)
<1>1. \A p \in Producers : producer[p].seen.index = b =>
          InsertIndex(p)' = InsertIndex(p) /\ OwedCells(p)' = OwedCells(p)
  BY Zenon DEF InsertIndex, OwedCells
<1>2. /\ \A p \in Producers : p \in Writers(b, i)' <=> p \in Writers(b, i)
      /\ \A p \in Producers : p \in Writers(b, i) =>
               producer[p].seen.index = b
  BY Zenon, <1>1 DEF Writers
<1> QED
  BY Zenon, <1>1, <1>2, ContentSame

\* Steps of a producer that writes no cell: before its reservation, or its
\* acknowledgement.
LEMMA ContentQuiet ==
    ASSUME IInv, IInv', NEW p \in Producers, UNCHANGED <<cells, buf_capacity>>,
           \A q \in Producers \ {p} : producer'[q] = producer[q],
           producer[p].pc \notin {"insert", "panicked"},
           producer'[p].pc \notin {"insert", "panicked"}
    PROVE  \A b \in Buffer : \A i \in Cell : Content(b, i)' = Content(b, i)
<1> SUFFICES ASSUME NEW b \in Buffer, NEW i \in Cell
             PROVE  Content(b, i)' = Content(b, i)
  BY Zenon
<1>1. \A q \in Producers \ {p} :
          InsertIndex(q)' = InsertIndex(q) /\ OwedCells(q)' = OwedCells(q)
  BY Zenon DEF InsertIndex, OwedCells
<1>2. /\ \A q \in Producers : q \in Writers(b, i)' <=> q \in Writers(b, i)
      /\ \A q \in Producers : q \in Writers(b, i) => q # p
  BY Zenon, <1>1 DEF Writers
<1> QED
  BY Zenon, <1>1, <1>2, ContentSame

\* insert_into writes what was to come, whether it completes or panics.
LEMMA ContentInserted ==
    ASSUME IInv, IInv', NEW p \in Producers, producer[p].pc = "insert",
           NEW n \in 0..Len(producer[p].value), WriteCells(p, n),
           NEW pc \in {"ack", "panicked"},
           pc = "ack" => n = Len(producer[p].value),
           producer' = [producer EXCEPT ![p] = Goto(@, pc)],
           UNCHANGED buf_capacity
    PROVE  \A b \in Buffer : \A i \in Cell : Content(b, i)' = Content(b, i)
<1> SUFFICES ASSUME NEW b \in Buffer, NEW i \in Cell
             PROVE  Content(b, i)' = Content(b, i)
  BY Zenon
<1> DEFINE e == producer[p].seen.index
           v == producer[p].value
           at == InsertIndex(p)
<1>1. /\ v \in Seq(Element) /\ Len(v) \in Nat /\ at \in Nat /\ n \in Nat
      /\ Owes(p) /\ e \in Buffer
      /\ OwedCells(p) = at..(at + Len(v) - 1)
      /\ cells[e] \in [Cell -> Element \cup {Uninit}]
  <2>1. Owes(p) /\ TypeOK /\ ProducerInv(p)
    BY Zenon DEF Owes, IInv
  <2>2. v \in Seq(Element) /\ Len(v) \in Nat /\ at \in Nat
    BY Zenon, <2>1, OwedCellsFacts
  <2>3. e \in Buffer
    BY Zenon, <2>1 DEF TypeOK, EnqueuingWord
  <2>4. n \in Nat
    BY <2>2
  <2> QED
    BY Zenon, <2>1, <2>2, <2>3, <2>4 DEF OwedCells, TypeOK
<1>2. /\ \A q \in Producers \ {p} : producer'[q] = producer[q]
      /\ producer'[p].pc = pc
      /\ producer'[p].value = v /\ producer'[p].seen = producer[p].seen
  BY Zenon DEF IInv, TypeOK, Goto
<1>3. /\ cells'[e][i] = IF i \in at..(at + n - 1) THEN v[i - at + 1]
                                                  ELSE cells[e][i]
      /\ b # e => cells'[b] = cells[b]
  BY Zenon, <1>1 DEF WriteCells, InsertInto, IInv, TypeOK
<1>4. \A q \in Producers :
          InsertIndex(q)' = InsertIndex(q) /\ OwedCells(q)' = OwedCells(q)
  BY Zenon, <1>2 DEF InsertIndex, OwedCells
<1>5. \A q \in Producers \ {p} : q \in Writers(b, i)' <=> q \in Writers(b, i)
  BY Zenon, <1>2, <1>4 DEF Writers
<1>6. p \in Writers(b, i) <=> b = e /\ i \in OwedCells(p)
  BY Zenon DEF Writers
<1>7. CASE pc = "panicked"
  <2>1. p \in Writers(b, i)' <=> p \in Writers(b, i)
    BY Zenon, <1>2, <1>4, <1>7 DEF Writers
  <2>2. Writers(b, i) = {} => cells'[b][i] = cells[b][i]
    <3> SUFFICES ASSUME Writers(b, i) = {} PROVE cells'[b][i] = cells[b][i]
      BY Zenon
    <3>1. b = e => ~(at <= i /\ i <= at + Len(v) - 1)
      BY <1>1, <1>6 DEF Cell
    <3>2. b = e => i \notin at..(at + n - 1)
      BY <1>1, <3>1 DEF Cell
    <3> QED
      BY Zenon, <1>3, <3>2
  <2> QED
    BY Zenon, <1>2, <1>4, <1>5, <2>1, <2>2, ContentSame
<1>8. CASE pc = "ack" /\ ~(b = e /\ i \in OwedCells(p))
  <2>1. p \notin Writers(b, i)' /\ p \notin Writers(b, i)
    BY Zenon, <1>2, <1>6, <1>8 DEF Writers
  <2>2. cells'[b][i] = cells[b][i]
    BY Zenon, <1>1, <1>3, <1>8
  <2> QED
    BY <1>2, <1>4, <1>5, <2>1, <2>2, ContentSame
<1>9. CASE pc = "ack" /\ b = e /\ i \in OwedCells(p)
  <2>1. Content(b, i) = v[i - at + 1]
    BY Zenon, <1>6, <1>9, ContentIs DEF ContentFacts
  <2>2. Writers(b, i)' = {}
    <3>1. p \notin Writers(b, i)'
      BY Zenon, <1>2, <1>9 DEF Writers
    <3>2. ASSUME NEW q \in Producers \ {p}, q \in Writers(b, i) PROVE FALSE
      <4>1. Owes(q) /\ producer[q].seen.index = e /\ i \in OwedCells(q)
        BY Zenon, <1>9, <3>2 DEF Writers, Owes
      <4> QED
        BY Zenon, <1>1, <1>9, <4>1 DEF IInv, DisjointOwed
    <3> QED
      BY Zenon, <1>5, <3>1, <3>2 DEF Writers
  <2>3. cells'[b][i] = v[i - at + 1]
    BY Zenon, <1>1, <1>3, <1>9
  <2> QED
    BY Zenon, <2>1, <2>2, <2>3, ContentIsNext DEF ContentFacts
<1> QED
  BY Zenon, <1>7, <1>8, <1>9

-----------------------------------------------------------------------------
(* What a step leaves of the two sequences.                                *)

\* A region whose cells keep their content.
LEMMA RegionSame ==
    ASSUME IInv, NEW b \in Buffer, NEW start \in Nat, NEW n \in Nat,
           start + n <= buf_capacity[b],
           \A i \in Cell : start <= i /\ i < start + n =>
               Content(b, i)' = Content(b, i)
    PROVE  Region(b, start, n)' = Region(b, start, n)
<1>1. \A k \in 1..n : /\ start + k - 1 \in Cell
                       /\ start <= start + k - 1 /\ start + k - 1 < start + n
  BY QueueAssumption DEF IInv, TypeOK, Cell, QueueAssumption
<1>2. \A k \in 1..n :
          Content(b, start + k - 1)' = Content(b, start + k - 1)
  BY Zenon, <1>1
<1> QED
  BY Zenon, <1>2 DEF Region

\* What is due from a buffer is the same when its content and its
\* acknowledged length are.
LEMMA DueFromSame ==
    ASSUME IInv, NEW b \in Buffer, NEW n \in Nat, IsDue(Buf[b], n),
           \A i \in Cell : Content(b, i)' = Content(b, i),
           DueStart(b, n)' = DueStart(b, n)
    PROVE  DueFrom(b, n)' = DueFrom(b, n)
<1> DEFINE start == DueStart(b, n)
<1>1. start \in Nat /\ start + n <= buf_capacity[b]
  BY Zenon, DueRange
<1>2. start' = start
  BY Zenon
<1> HIDE DEF start
<1>3. Region(b, start, n)' = Region(b, start, n)
  <2>1. \A k \in Nat : k + n <= buf_capacity[b] =>
            Region(b, k, n)' = Region(b, k, n)
    BY Zenon, RegionSame
  <2> QED
    BY Zenon, <1>1, <1>2, <2>1
<1> QED
  BY Zenon, <1>3 DEF DueFrom, start

\* Steps of producers: what is due, and to whom, stays.
LEMMA DueKept ==
    ASSUME IInv, IInv', UNCHANGED <<dequeuing_length, consumer, buf_capacity>>,
           \A i \in Cell : Content(Other, i)' = Content(Other, i),
           Other' = Other,
           \A n \in Nat : IsDue(Buf[Other], n) =>
               DueStart(Other, n)' = DueStart(Other, n)
    PROVE  Due' = Due /\ Lent' = Lent
<1> DEFINE o == Other
<1>0. o \in Buffer /\ o' = o
  BY DEF IInv, TypeOK, EnqueuingWord, Other, Buffer
<1>1. \A n \in Nat : IsDue(Buf[o], n) => DueFrom(o, n)' = DueFrom(o, n)
  <2> SUFFICES ASSUME NEW n \in Nat, IsDue(Buf[o], n)
               PROVE  DueFrom(o, n)' = DueFrom(o, n)
    BY Zenon
  <2>1. \A b \in Buffer : b = o =>
            /\ \A i \in Cell : Content(b, i)' = Content(b, i)
            /\ DueStart(b, n)' = DueStart(b, n)
    BY Zenon, <1>0
  <2>2. \A b \in Buffer : b = o => DueFrom(b, n)' = DueFrom(b, n)
    BY Zenon, <2>1, DueFromSame
  <2> QED
    BY Zenon, <1>0, <2>2
<1>2. Lent' = Lent
  BY Zenon DEF Lent, HasSlice
<1>3. CASE dequeuing_length # DEQUEUING_LOCKED
  <2> DEFINE n == dequeuing_length.length
  <2>1. dequeuing_length.index = o /\ n \in Nat /\ IsDue(Buf[o], n)
    BY Zenon, <1>3, UnlockedFacts
  <2>2. Due = DueFrom(o, n) /\ Due' = DueFrom(o, n)'
    BY Zenon, <1>0, <1>3, <2>1 DEF Due
  <2> QED
    BY Zenon, <1>1, <1>2, <2>1, <2>2
<1>4. CASE dequeuing_length = DEQUEUING_LOCKED
  <2>1. PICK c \in Consumers : consumer[c].pc # "idle"
    BY Zenon, <1>4 DEF IInv, LockIsExclusive
  <2>2. Due = DueTo(c) /\ Due' = DueTo(c)'
    BY Zenon, <2>1, DueHeld, DueHeldNext
  <2>3. consumer[c].pc \in ConsumerPc
    BY Zenon, HolderFacts DEF ConsumerRecord
  <2>4. CASE consumer[c].pc \in {"spin", "store"}
    <3> DEFINE n == consumer[c].length
    <3>1. consumer[c].index = o /\ n \in Nat /\ IsDue(Buf[o], n)
      BY Zenon, <2>4, SpinFacts
    <3>2. DueTo(c) = DueFrom(o, n)
      BY Zenon, <2>4, <3>1, DueToBy
    <3>3. DueTo(c)' = DueFrom(o, n)'
      BY Zenon, <1>0, <2>4, <3>1 DEF DueTo, HasSlice
    <3> QED
      BY Zenon, <1>1, <1>2, <2>2, <3>1, <3>2, <3>3
  <2>5. CASE HasSlice(c)
    <3> DEFINE s == consumer[c].start
               n == consumer[c].length
    <3>1. /\ consumer[c].index = o /\ s \in Nat /\ n \in Nat
          /\ s + n <= buf_capacity[o]
      BY Zenon, <2>5, SliceFacts
    <3>2. Region(o, s, n)' = Region(o, s, n)
      <4>1. \A b \in Buffer : \A k, m \in Nat :
                b = o /\ k + m <= buf_capacity[b] =>
                    Region(b, k, m)' = Region(b, k, m)
        BY Zenon, RegionSame
      <4>2. s' = s /\ n' = n
        BY Zenon
      <4> HIDE DEF o, s, n
      <4> QED
        BY Zenon, <1>0, <3>1, <4>1, <4>2
    <3>3. DueTo(c) = Region(o, s, n)
      BY Zenon, <2>5, <3>1, DueToBy
    <3>4. DueTo(c)' = Region(o, s, n)'
      BY Zenon, <1>0, <2>5, <3>1 DEF DueTo, HasSlice
    <3> QED
      BY Zenon, <1>2, <2>2, <3>2, <3>3, <3>4
  <2>6. CASE consumer[c].pc = "notify"
    <3> DEFINE n == SwappedLength(c)
    <3>1. consumer[c].seen.index = o /\ n \in Nat /\ IsDue(Buf[o], n)
      BY Zenon, <2>6, NotifyFacts
    <3>2. n' = n
      BY Zenon DEF SwappedLength
    <3>3. DueTo(c) = DueFrom(o, n)
      BY <2>6, <3>1, DueToBy
    <3>4. DueTo(c)' = DueFrom(o, n)'
      BY Zenon, <1>0, <2>6, <3>1 DEF DueTo, HasSlice
    <3> HIDE DEF n
    <3>5. DueFrom(o, n)' = DueFrom(o, n)
      BY Zenon, <1>1, <3>1, <3>2
    <3> QED
      BY Zenon, <1>2, <2>2, <3>3, <3>4, <3>5
  <2>7. CASE consumer[c].pc \in {"resize", "insert", "load", "swap", "panicked"}
    <3>1. DueTo(c) = <<>> /\ DueTo(c)' = <<>>
      BY Zenon, <2>7 DEF DueTo, HasSlice
    <3> QED
      BY Zenon, <1>2, <2>2, <3>1
  <2> QED
    BY Zenon, <2>1, <2>3, <2>4, <2>5, <2>6, <2>7 DEF ConsumerPc, HasSlice
<1> QED
  BY Zenon, <1>3, <1>4

\* What is reserved in the enqueuing buffer stays.
LEMMA EnqueuedKept ==
    ASSUME IInv,
           enqueuing_capacity'.index = enqueuing_capacity.index,
           enqueuing_capacity'.remaining = enqueuing_capacity.remaining,
           buf_capacity'[enqueuing_capacity.index]
               = buf_capacity[enqueuing_capacity.index],
           \A b \in Buffer : b = enqueuing_capacity.index =>
               \A i \in Cell : Content(b, i)' = Content(b, i)
    PROVE  Enqueued' = Enqueued
<1> DEFINE e == enqueuing_capacity.index
           n == buf_capacity[e] - enqueuing_capacity.remaining
<1>1. e \in Buffer /\ n \in Nat /\ 0 + n <= buf_capacity[e] /\ 0 \in Nat
  BY EnqueuedType
<1>2. e' = e /\ n' = n
  BY Zenon
<1>3. Enqueued = Region(e, 0, n) /\ Enqueued' = Region(e, 0, n)'
  BY Zenon, <1>2 DEF Enqueued
<1> HIDE DEF n
<1>4. \A b \in Buffer : \A m \in Nat :
          b = e /\ 0 + m <= buf_capacity[b] => Region(b, 0, m)' = Region(b, 0, m)
  BY Zenon, <1>1, RegionSame
<1> HIDE DEF e
<1> QED
  BY Zenon, <1>1, <1>2, <1>3, <1>4

-----------------------------------------------------------------------------
(* Each action of a producer.                                              *)

\* Neither a call that has not reserved yet, nor the writes, nor the
\* acknowledgement, are seen in the abstract queue.
LEMMA QuietProducer ==
    ASSUME IInv, IInv', UNCHANGED <<enqueuing_capacity, dequeuing_length,
                                    buf_capacity, consumer>>,
           \A b \in Buffer : \A i \in Cell : Content(b, i)' = Content(b, i),
           \A n \in Nat : IsDue(Buf[Other], n) =>
               DueStart(Other, n)' = DueStart(Other, n)
    PROVE  ContentStep
<1>1. Other' = Other /\ Other \in Buffer
  BY DEF Other, IInv, TypeOK, EnqueuingWord, Buffer
<1>2. \A i \in Cell : Content(Other, i)' = Content(Other, i)
  <2>1. \A b \in Buffer : b = Other =>
            \A i \in Cell : Content(b, i)' = Content(b, i)
    BY Zenon
  <2> QED
    BY Zenon, <1>1, <2>1
<1>3. Due' = Due /\ Lent' = Lent
  BY Zenon, <1>1, <1>2, DueKept
<1>4. Enqueued' = Enqueued
  BY Zenon, EnqueuedKept
<1> QED
  BY Zenon, <1>3, <1>4, StutterStep

\* The loop of try_enqueue before its compare-and-swap.
LEMMA CheckWordStep ==
    ASSUME IInv, IInv', NEW p \in Producers, TryEnqueue(p) \/ RetryReserve(p)
    PROVE  ContentStep
<1>1. /\ UNCHANGED <<enqueuing_capacity, dequeuing_length, buffers_length,
                     buf_capacity, cells, consumer>>
      /\ producer[p].pc \in {"idle", "cas"}
      /\ \E value : CheckWord(p, value, enqueuing_capacity)
  BY Zenon DEF TryEnqueue, RetryReserve, buffer_vars
<1>2. /\ \A q \in Producers \ {p} : producer'[q] = producer[q]
      /\ producer'[p].pc \in {"idle", "cas"}
  BY <1>1 DEF IInv, TypeOK, CheckWord, IdleProducer
<1>3. \A b \in Buffer : \A i \in Cell : Content(b, i)' = Content(b, i)
  BY Zenon, <1>1, <1>2, ContentQuiet
<1>4. \A n \in Nat : DueStart(Other, n)' = DueStart(Other, n)
  BY Zenon, <1>1 DEF DueStart, Other
<1> QED
  BY Zenon, <1>1, <1>3, <1>4, QuietProducer

\* insert_into, complete or not.
LEMMA InsertStep ==
    ASSUME IInv, IInv', NEW p \in Producers, InsertValue(p) \/ InsertPanics(p)
    PROVE  ContentStep
<1>1. /\ UNCHANGED <<enqueuing_capacity, dequeuing_length, buffers_length,
                     buf_capacity, consumer>>
      /\ producer[p].pc = "insert"
  BY Zenon DEF InsertValue, InsertPanics
<1>2. Len(producer[p].value) \in Nat
  BY Zenon, <1>1, OwedCellsFacts DEF IInv, Owes
<1>3. \A b \in Buffer : \A i \in Cell : Content(b, i)' = Content(b, i)
  <2>1. CASE InsertValue(p)
    <3>1. PICK n \in Nat : n = Len(producer[p].value)
      BY Zenon, <1>2
    <3>2. n \in 0..Len(producer[p].value)
      BY <3>1
    <3>3. WriteCells(p, n)
      BY Zenon, <2>1, <3>1 DEF InsertValue, WriteCells
    <3> QED
      BY Zenon, <1>1, <2>1, <3>1, <3>2, <3>3, ContentInserted DEF InsertValue
  <2>2. CASE InsertPanics(p)
    <3>1. PICK n \in 0..(Len(producer[p].value) - 1) : WriteCells(p, n)
      BY Zenon, <2>2 DEF InsertPanics
    <3>2. n \in 0..Len(producer[p].value)
      BY <1>2
    <3> QED
      BY Zenon, <1>1, <2>2, <3>1, <3>2, ContentInserted DEF InsertPanics
  <2> QED
    BY Zenon, <2>1, <2>2
<1>4. \A n \in Nat : DueStart(Other, n)' = DueStart(Other, n)
  BY Zenon, <1>1 DEF DueStart, Other
<1> QED
  BY Zenon, <1>1, <1>3, <1>4, QuietProducer

\* The acknowledgement counts cells that are still due from the first one.
LEMMA AcknowledgeStep ==
    ASSUME IInv, IInv', NEW p \in Producers, Acknowledge(p)
    PROVE  ContentStep
<1> DEFINE b == producer[p].seen.index
           k == Len(producer[p].value)
<1>1. /\ UNCHANGED <<enqueuing_capacity, dequeuing_length, buf_capacity, cells,
                     consumer>>
      /\ producer[p].pc = "ack" /\ Owes(p)
      /\ \A q \in Producers \ {p} : producer'[q] = producer[q]
      /\ producer'[p].pc = "idle"
  BY Zenon DEF Acknowledge, buffer_vars, IInv, TypeOK, IdleProducer, Owes
<1>2. \A d \in Buffer : \A i \in Cell : Content(d, i)' = Content(d, i)
  BY Zenon, <1>1, ContentQuiet
<1>3. /\ b \in Buffer /\ k \in Nat /\ k # 0
      /\ OwedCells(p) \subseteq Owed[b] /\ OwedCells(p) # {}
      /\ Cardinality(OwedCells(p)) = k
  <2>1. /\ InsertIndex(p) \in Nat /\ k \in Nat \ {0}
        /\ OwedCells(p) \subseteq Owed[b]
        /\ InsertIndex(p) \in OwedCells(p)
    BY Zenon, <1>1, OwedCellsFacts DEF IInv
  <2>2. b \in Buffer
    BY Zenon DEF IInv, TypeOK, EnqueuingWord
  <2>3. Cardinality(OwedCells(p)) = k
    <3> DEFINE at == InsertIndex(p)
    <3>1. at \in Int /\ at + k - 1 \in Int
      BY <2>1
    <3>2. Cardinality(at..(at + k - 1)) =
              IF at > at + k - 1 THEN 0 ELSE (at + k - 1) - at + 1
      BY Zenon, <3>1, FS_Interval
    <3> HIDE DEF k
    <3>3. Cardinality(at..(at + k - 1)) = k
      BY <2>1, <3>2
    <3> QED
      BY Zenon, <3>3 DEF OwedCells, k
  <2> QED
    BY Zenon, <2>1, <2>2, <2>3
<1>4. /\ \A d \in Buffer : buffers_length'[d] =
             IF d = b THEN buffers_length[d] + k ELSE buffers_length[d]
      /\ \A d \in Buffer : buffers_length[d] \in Nat
      /\ Other \in Buffer /\ Other' = Other
  <2>1. /\ buffers_length \in [Buffer -> 0..MaxCapacity]
        /\ buffers_length' = [buffers_length EXCEPT ![b] = @ + k]
        /\ enqueuing_capacity \in EnqueuingWord
        /\ enqueuing_capacity' = enqueuing_capacity
    BY Zenon DEF Acknowledge, IInv, TypeOK
  <2> HIDE DEF b, k
  <2>2. \A d \in Buffer : buffers_length'[d] =
            IF d = b THEN buffers_length[d] + k ELSE buffers_length[d]
    BY Zenon, <1>3, <2>1
  <2>3. \A d \in Buffer : buffers_length[d] \in Nat
    BY <2>1, QueueAssumption DEF QueueAssumption
  <2>4. Other \in Buffer /\ Other' = Other
    BY <2>1 DEF Other, EnqueuingWord, Buffer
  <2> QED
    BY Zenon, <2>2, <2>3, <2>4
<1>5. ASSUME NEW n \in Nat, IsDue(Buf[Other], n)
      PROVE  DueStart(Other, n)' = DueStart(Other, n)
  <2>1. CASE Other # b
    BY Zenon, <1>4, <2>1 DEF DueStart
  <2>2. CASE Other = b
    <3>1. DueStart(b, n) = 0 /\ Reserved(Buf[b], n)
      BY Zenon, <1>3, <1>5, <2>2, DueRange
    <3>2. buffers_length[b] + Cardinality(Owed[b]) = n
      BY Zenon, <1>3, <3>1 DEF Reserved, Buf
    <3>3. Cardinality(Owed[b]) \in Nat /\ k <= Cardinality(Owed[b])
      BY <1>3, OwedFinite, FS_Subset
    <3>4. buffers_length'[b] <= n /\ buffers_length'[b] \in Nat
      BY <1>3, <1>4, <3>2, <3>3
    <3>5. DueStart(Other, n)' = 0
      BY <1>4, <2>2, <3>4 DEF DueStart
    <3> QED
      BY Zenon, <2>2, <3>1, <3>5
  <2> QED
    BY Zenon, <2>1, <2>2
<1> QED
  BY Zenon, <1>1, <1>2, <1>5, QuietProducer

\* The compare-and-swap of try_enqueue puts the value at the end.
LEMMA ReserveStep ==
    ASSUME IInv, IInv', OpenInv, NEW p \in Producers, ReserveCells(p)
    PROVE  ContentStep
<1> DEFINE e == enqueuing_capacity.index
           n == buf_capacity[e] - enqueuing_capacity.remaining
           v == producer[p].value
<1>1. /\ UNCHANGED <<dequeuing_length, buffers_length, buf_capacity, cells,
                     consumer>>
      /\ producer[p].pc = "cas" /\ producer[p].seen = enqueuing_capacity
      /\ producer'[p].pc = "insert"
      /\ producer'[p].value = v /\ producer'[p].seen = enqueuing_capacity
      /\ \A q \in Producers \ {p} : producer'[q] = producer[q]
  BY Zenon DEF ReserveCells, buffer_vars, IInv, TypeOK, Goto
<1>2. /\ v \in Values /\ v \in Seq(Element) /\ Len(v) \in Nat
      /\ Len(v) <= enqueuing_capacity.remaining
      /\ ~enqueuing_capacity.closed
  <2>1. /\ v \in Values /\ Len(v) <= enqueuing_capacity.remaining
        /\ ~enqueuing_capacity.closed
    BY Zenon, <1>1 DEF IInv, ProducerInv, OpenInv
  <2>2. v \in Seq(Element)
    BY Zenon, <2>1, QueueAssumption DEF QueueAssumption
  <2>3. Len(v) \in Nat
    BY <2>2
  <2> QED
    BY Zenon, <2>1, <2>2, <2>3
<1>3. /\ e \in Buffer /\ n \in Nat
      /\ enqueuing_capacity.remaining \in Nat
      /\ buf_capacity[e] \in 0..MaxCapacity /\ MaxCapacity \in Nat
      /\ Len(Enqueued) = n /\ Enqueued \in Seq(CellValue)
  BY Zenon, EnqueuedType
<1>4. /\ enqueuing_capacity'.index = e
      /\ enqueuing_capacity'.remaining
            = enqueuing_capacity.remaining - Len(v)
      /\ enqueuing_capacity'.closed = enqueuing_capacity.closed
  <2>1. enqueuing_capacity \in EnqueuingWord
    BY Zenon DEF IInv, TypeOK
  <2> QED
    BY Zenon, <1>1, <2>1 DEF ReserveCells, TryReserve, EnqueuingWord
<1>5. /\ InsertIndex(p)' = n
      /\ \A q \in Producers \ {p} :
            InsertIndex(q)' = InsertIndex(q) /\ OwedCells(q)' = OwedCells(q)
      /\ OwedCells(p)' = n..(n + Len(v) - 1)
  BY Zenon, <1>1 DEF InsertIndex, OwedCells
<1>6. \A b \in Buffer : \A i \in Cell :
          b # e \/ i < n => Content(b, i)' = Content(b, i)
  <2> SUFFICES ASSUME NEW b \in Buffer, NEW i \in Cell, b # e \/ i < n
               PROVE  Content(b, i)' = Content(b, i)
    BY Zenon
  <2>1. \A q \in Producers \ {p} : q \in Writers(b, i)' <=> q \in Writers(b, i)
    BY Zenon, <1>1, <1>5 DEF Writers
  <2>2. p \notin Writers(b, i)
    BY Zenon, <1>1 DEF Writers
  <2>3. b = e => i \notin OwedCells(p)'
    BY <1>2, <1>3, <1>5 DEF Cell
  <2>4. p \notin Writers(b, i)'
    BY Zenon, <1>1, <2>3 DEF Writers
  <2> QED
    BY Zenon, <1>1, <1>5, <2>1, <2>2, <2>4, ContentSame
<1>7. \A b \in Buffer : \A i \in Cell :
          b = e /\ n <= i /\ i < n + Len(v) => Content(b, i)' = v[i - n + 1]
  <2> SUFFICES ASSUME NEW b \in Buffer, NEW i \in Cell, b = e, n <= i,
                      i < n + Len(v)
               PROVE  Content(b, i)' = v[i - n + 1]
    BY Zenon
  <2>1. i \in OwedCells(p)'
    BY <1>2, <1>3, <1>5 DEF Cell
  <2>2. p \in Writers(b, i)'
    BY Zenon, <1>1, <2>1 DEF Writers
  <2>3. Content(b, i)' = producer'[p].value[i - InsertIndex(p)' + 1]
    BY <2>2, ContentIsNext DEF ContentFacts
  <2> QED
    BY Zenon, <1>1, <1>5, <2>3
<1>8. Enqueued' = Enqueued \o v
  <2> DEFINE u == Enqueued'
             m == Len(v)
  <2>1. /\ enqueuing_capacity'.index = e
        /\ buf_capacity'[enqueuing_capacity'.index]
              - enqueuing_capacity'.remaining = n + m
    BY <1>1, <1>2, <1>3, <1>4
  <2>2. /\ \A i \in 1..n : i - 1 \in Cell /\ i - 1 < n
        /\ \A i \in (n + 1)..(n + m) :
              i - 1 \in Cell /\ n <= i - 1 /\ i - 1 < n + m
    <3>1. n + m <= MaxCapacity /\ m \in Nat
      BY <1>2, <1>3
    <3> HIDE DEF n, m
    <3> QED
      BY <1>3, <3>1 DEF Cell
  <2>3. \A i \in 1..(n + m) : Content(e, i - 1)' =
            IF i <= n THEN Content(e, i - 1) ELSE v[i - n]
    <3> SUFFICES ASSUME NEW i \in 1..(n + m)
                 PROVE  Content(e, i - 1)' =
                            IF i <= n THEN Content(e, i - 1) ELSE v[i - n]
      BY Zenon
    <3>1. CASE i <= n
      <4>1. \A b \in Buffer : b = e => Content(b, i - 1)' = Content(b, i - 1)
        BY <1>2, <1>3, <1>6, <2>2, <3>1
      <4> QED
        BY Zenon, <1>3, <1>4, <3>1, <4>1
    <3>2. CASE i > n
      <4>0. i \in (n + 1)..(n + m) /\ (i - 1) - n + 1 = i - n
        BY <1>2, <1>3, <3>2
      <4>1. \A b \in Buffer : b = e => Content(b, i - 1)' = v[i - n]
        BY Zenon, <1>7, <2>2, <4>0
      <4> QED
        BY <1>3, <1>4, <3>2, <4>0, <4>1
    <3> QED
      BY <1>2, <1>3, <3>1, <3>2
  <2>4. /\ u = [i \in 1..(n + m) |-> Content(e, 0 + i - 1)']
        /\ Enqueued = [i \in 1..n |-> Content(e, 0 + i - 1)]
    BY Zenon, <1>4, <2>1 DEF Enqueued, Region
  <2>5. /\ u \in Seq(CellValue) /\ Len(u) = n + m
        /\ \A i \in 1..(n + m) : u[i] = Content(e, i - 1)'
        /\ \A i \in 1..n : Enqueued[i] = Content(e, i - 1)
    <3>1. u \in Seq(CellValue)
      BY Zenon, ViewNext
    <3>2. \A i \in 1..(n + m) : 0 + i - 1 = i - 1
      OBVIOUS
    <3>3. \A i \in 1..n : 0 + i - 1 = i - 1
      OBVIOUS
    <3>4. n + m \in Nat
      BY <1>2, <1>3
    <3> HIDE DEF u
    <3> QED
      BY <2>4, <3>1, <3>2, <3>3, <3>4
  <2>6. \A i \in 1..(n + m) : u[i] = IF i <= n THEN Enqueued[i] ELSE v[i - n]
    <3>1. n \in Nat /\ m \in Nat
      BY Zenon, <1>2, <1>3
    <3> HIDE DEF u, n, m
    <3>2. \A i \in 1..(n + m) : i <= n => i \in 1..n
      BY <3>1
    <3> QED
      BY Zenon, <2>3, <2>5, <3>2
  <2>7. v \in Seq(CellValue)
    BY <1>2 DEF CellValue
  <2>8. Len(v) = m
    BY Zenon
  <2> HIDE DEF u, n, v, m
  <2>9. /\ Len(u) = Len(Enqueued) + Len(v)
        /\ \A i \in 1..Len(u) : u[i] = IF i <= Len(Enqueued) THEN Enqueued[i]
                                         ELSE v[i - Len(Enqueued)]
    BY Zenon, <1>3, <2>5, <2>6, <2>8
  <2>10. u = Enqueued \o v
    BY Zenon, <1>3, <2>5, <2>7, <2>9, ConcatIs
  <2> QED
    BY Zenon, <2>10 DEF u
<1>9. Due' = Due /\ Lent' = Lent
  <2>1. Other' = Other /\ Other \in Buffer /\ Other # e
    BY <1>3, <1>4 DEF Other, Buffer
  <2>2. \A i \in Cell : Content(Other, i)' = Content(Other, i)
    <3>1. \A b \in Buffer : b = Other =>
              \A i \in Cell : Content(b, i)' = Content(b, i)
      BY Zenon, <1>6, <2>1
    <3> QED
      BY Zenon, <2>1, <3>1
  <2>3. \A k \in Nat : DueStart(Other, k)' = DueStart(Other, k)
    BY Zenon, <1>1, <2>1 DEF DueStart
  <2> QED
    BY Zenon, <1>1, <2>1, <2>2, <2>3, DueKept
<1> HIDE DEF v
<1> QED
  BY Zenon, <1>2, <1>4, <1>8, <1>9, EnqueueStep

-----------------------------------------------------------------------------
(* Each action of a consumer.                                              *)

\* A step of a consumer outside the enqueuing buffer.
LEMMA EnqueuedFrame ==
    ASSUME IInv, IInv', UNCHANGED <<enqueuing_capacity, producer>>,
           buf_capacity'[enqueuing_capacity.index]
               = buf_capacity[enqueuing_capacity.index],
           cells'[enqueuing_capacity.index] = cells[enqueuing_capacity.index]
    PROVE  Enqueued' = Enqueued
<1>1. \A b \in Buffer : b = enqueuing_capacity.index =>
          \A i \in Cell : Content(b, i)' = Content(b, i)
  BY Zenon, ContentFrame
<1> QED
  BY Zenon, <1>1, EnqueuedKept

\* A step of a consumer that leaves both buffers as they are.
LEMMA BuffersFrame ==
    ASSUME IInv, IInv', UNCHANGED <<producer, buf_capacity, cells>>
    PROVE  /\ \A b \in Buffer : \A i \in Cell : Content(b, i)' = Content(b, i)
           /\ \A b \in Buffer : \A s, n \in Nat : s + n <= buf_capacity[b] =>
                 Region(b, s, n)' = Region(b, s, n)
           /\ UNCHANGED enqueuing_capacity => Enqueued' = Enqueued
           /\ UNCHANGED buffers_length =>
                 \A b \in Buffer : \A n \in Nat : IsDue(Buf[b], n) =>
                     DueFrom(b, n)' = DueFrom(b, n)
<1>1. \A b \in Buffer : \A i \in Cell : Content(b, i)' = Content(b, i)
  BY Zenon, ContentFrame
<1>2. \A b \in Buffer : \A s, n \in Nat : s + n <= buf_capacity[b] =>
          Region(b, s, n)' = Region(b, s, n)
  BY Zenon, <1>1, RegionSame
<1>3. UNCHANGED enqueuing_capacity => Enqueued' = Enqueued
  BY Zenon, EnqueuedFrame
<1>4. ASSUME UNCHANGED buffers_length, NEW b \in Buffer, NEW n \in Nat,
             IsDue(Buf[b], n)
      PROVE  DueFrom(b, n)' = DueFrom(b, n)
  <2>1. DueStart(b, n)' = DueStart(b, n)
    BY Zenon, <1>4 DEF DueStart
  <2> QED
    BY Zenon, <1>1, <1>4, <2>1, DueFromSame
<1> QED
  BY Zenon, <1>1, <1>2, <1>3, <1>4

\* Nothing is due on a buffer of which no length is due.
LEMMA NothingDue ==
    \A b, n : n = 0 => DueFrom(b, n) = <<>>
  BY Zenon, RegionEmpty DEF DueFrom

\* NothingDue in the next state.
LEMMA NothingDueNext ==
    (\A b, n : n = 0 => DueFrom(b, n) = <<>>)'
  BY NothingDue, PTL

\* A step that changes nothing.
LEMMA UnchangedStep ==
    ASSUME IInv, IInv', UNCHANGED vars
    PROVE  ContentStep
<1>1. UNCHANGED <<enqueuing_capacity, dequeuing_length, buffers_length,
                  buf_capacity, cells, producer, consumer>>
  BY Zenon DEF vars
<1>2. \A b \in Buffer : \A i \in Cell : Content(b, i)' = Content(b, i)
  BY Zenon, <1>1, ContentFrame
<1>3. \A n \in Nat : DueStart(Other, n)' = DueStart(Other, n)
  BY Zenon, <1>1 DEF DueStart, Other
<1> QED
  BY Zenon, <1>1, <1>2, <1>3, QuietProducer

\* close and reopen.
LEMMA SetClosedStep ==
    ASSUME IInv, IInv', Close \/ Reopen
    PROVE  ContentStep
<1>1. /\ UNCHANGED <<dequeuing_length, buffers_length, buf_capacity, cells,
                     producer, consumer>>
      /\ enqueuing_capacity'.index = enqueuing_capacity.index
      /\ enqueuing_capacity'.remaining = enqueuing_capacity.remaining
      /\ enqueuing_capacity'.closed \in BOOLEAN
  <2>1. enqueuing_capacity \in EnqueuingWord
    BY Zenon DEF IInv, TypeOK
  <2>2. enqueuing_capacity'.closed \in BOOLEAN
    BY Zenon DEF IInv, TypeOK, EnqueuingWord
  <2> QED
    BY Zenon, <2>1, <2>2
       DEF Close, Reopen, SetClosed, EnqueuingWord, buffer_vars
<1>2. \A b \in Buffer : \A i \in Cell : Content(b, i)' = Content(b, i)
  BY Zenon, <1>1, ContentFrame
<1>3. Other' = Other /\ Other \in Buffer
  BY <1>1 DEF Other, IInv, TypeOK, EnqueuingWord, Buffer
<1>4. \A n \in Nat : DueStart(Other, n)' = DueStart(Other, n)
  BY Zenon, <1>1, <1>3 DEF DueStart
<1>5. \A i \in Cell : Content(Other, i)' = Content(Other, i)
  <2>1. \A b \in Buffer : b = Other =>
            \A i \in Cell : Content(b, i)' = Content(b, i)
    BY Zenon, <1>2
  <2> QED
    BY Zenon, <1>3, <2>1
<1>6. Due' = Due /\ Lent' = Lent
  BY Zenon, <1>1, <1>3, <1>4, <1>5, DueKept
<1>7. Enqueued' = Enqueued
  BY Zenon, <1>1, <1>2, EnqueuedKept
<1> QED
  BY Zenon, <1>1, <1>6, <1>7, CloseStep

\* lock_dequeuing.
LEMMA LockStep ==
    ASSUME IInv, IInv', NEW c \in Consumers, NEW pc \in {"load", "resize"},
           LockDequeuing(c, pc)
    PROVE  ContentStep
<1>1. /\ consumer[c] \in ConsumerRecord /\ consumer[c].pc = "idle"
      /\ UNCHANGED <<enqueuing_capacity, buffers_length, buf_capacity, cells,
                     capacity, producer>>
      /\ dequeuing_length' = DEQUEUING_LOCKED
  BY Zenon, HolderFacts DEF LockDequeuing, buffer_vars
<1>2. CASE dequeuing_length = DEQUEUING_LOCKED
  <2>1. UNCHANGED <<consumer, dequeuing_length>>
    BY Zenon, <1>1, <1>2 DEF LockDequeuing, IInv, TypeOK
  <2> QED
    BY Zenon, <1>1, <2>1, UnchangedStep DEF vars
<1>3. CASE dequeuing_length # DEQUEUING_LOCKED
  <2> DEFINE b == dequeuing_length.index
             n == dequeuing_length.length
  <2>1. b \in Buffer /\ n \in Nat /\ IsDue(Buf[b], n)
    BY Zenon, <1>3, UnlockedFacts
  <2>2. consumer'[c] = At(IF n > 0 THEN "spin" ELSE pc, b, n)
    BY Zenon, <1>1, <1>3 DEF LockDequeuing, IInv, TypeOK
  <2>3. /\ consumer'[c].index = b /\ consumer'[c].length = n
        /\ consumer'[c].pc = IF n > 0 THEN "spin" ELSE pc
    BY <2>2 DEF At
  <2>4. Due = DueFrom(b, n) /\ ~Lent
    BY Zenon, <1>3, DueFree
  <2>5. Due' = DueTo(c)' /\ ~Lent'
    BY Zenon, <2>3, DueHeldNext DEF HasSlice
  <2> HIDE DEF b, n
  <2>6. \A d \in Buffer : \A m \in Nat : IsDue(Buf[d], m) =>
            DueFrom(d, m)' = DueFrom(d, m)
    BY Zenon, <1>1, BuffersFrame
  <2>7. Due' = Due
    <3>1. CASE n > 0
      <4>1. \A d \in Buffer : \A m \in Nat : d = b /\ m = n =>
                DueTo(c)' = DueFrom(d, m)'
        BY Zenon, <2>3, <3>1, DueToByNext
      <4>2. DueTo(c)' = DueFrom(b, n)
        BY Zenon, <2>1, <2>6, <4>1
      <4> QED
        BY Zenon, <2>4, <2>5, <4>2
    <3>2. CASE n = 0
      BY <2>3, <2>4, <2>5, <3>2, DueToByNext, NothingDue
    <3> QED
      BY <2>1, <3>1, <3>2
  <2>8. Lent' = Lent
    BY Zenon, <2>4, <2>5 DEF Lent
  <2>9. Enqueued' = Enqueued
    BY Zenon, <1>1, BuffersFrame
  <2> QED
    BY Zenon, <1>1, <2>7, <2>8, <2>9, StutterStep
<1> QED
  BY Zenon, <1>2, <1>3

\* A consumer to which nothing is due, before and after its step.
LEMMA EmptyHandedStep ==
    ASSUME IInv, IInv', NEW c \in Consumers,
           consumer[c].pc \in {"resize", "insert", "load", "swap"},
           \/ consumer'[c].pc \in {"insert", "load", "swap", "panicked"}
           \/ consumer'[c].pc = "store" /\ consumer'[c].length = 0,
           UNCHANGED <<enqueuing_capacity, producer>>,
           buf_capacity'[enqueuing_capacity.index]
               = buf_capacity[enqueuing_capacity.index],
           cells'[enqueuing_capacity.index] = cells[enqueuing_capacity.index]
    PROVE  ContentStep
<1>1. Due = <<>> /\ ~Lent
  BY Zenon, DueHeld, DueToBy DEF HasSlice
<1>2. Due' = DueTo(c)' /\ ~Lent'
  BY Zenon, DueHeldNext DEF HasSlice
<1>3. DueTo(c)' = <<>>
  BY Zenon, DueToByNext, NothingDueNext
<1>4. Lent' = Lent
  BY Zenon, <1>1, <1>2 DEF Lent
<1>5. Enqueued' = Enqueued
  BY Zenon, EnqueuedFrame
<1> QED
  BY Zenon, <1>1, <1>2, <1>3, <1>4, <1>5, StutterStep

\* try_dequeue_internal finds nothing, or goes (back) to its compare-and-swap.
LEMMA LoadStep ==
    ASSUME IInv, IInv', NEW c \in Consumers, LoadEnqueuing(c) \/ SwapRetry(c)
    PROVE  ContentStep
<1>1. /\ consumer[c] \in ConsumerRecord /\ consumer[c].pc \in {"load", "swap"}
      /\ UNCHANGED <<enqueuing_capacity, producer, buf_capacity, cells>>
  BY Zenon, HolderFacts DEF LoadEnqueuing, SwapRetry, buffer_vars
<1>2. \/ consumer'[c].pc = "swap"
      \/ consumer'[c].pc = "store" /\ consumer'[c].length = 0
  <2>1. CASE LoadEnqueuing(c)
    <3>1. consumer'[c] = IF NothingToDequeue(c, enqueuing_capacity)
                         THEN At("store", consumer[c].index, 0)
                         ELSE [Goto(consumer[c], "swap") EXCEPT
                                  !.seen = enqueuing_capacity]
      BY Zenon, <2>1 DEF LoadEnqueuing, IInv, TypeOK
    <3> QED
      BY <1>1, <3>1 DEF At, Goto, ConsumerRecord
  <2>2. CASE SwapRetry(c)
    <3>1. consumer'[c] = [consumer[c] EXCEPT !.seen = enqueuing_capacity]
      BY Zenon, <2>2 DEF SwapRetry, IInv, TypeOK
    <3>2. consumer[c].pc = "swap"
      BY Zenon, <2>2 DEF SwapRetry
    <3> QED
      BY Zenon, <1>1, <3>1, <3>2 DEF ConsumerRecord
  <2> QED
    BY Zenon, <2>1, <2>2
<1> QED
  BY Zenon, <1>1, <1>2, EmptyHandedStep

\* The resize closure works on the buffer that is not the enqueuing one.
LEMMA ResizeStep ==
    ASSUME IInv, IInv', NEW c \in Consumers,
           \/ ResizeBuffer(c) \/ InsertMore(c)
           \/ InsertMorePanics(c) \/ InsertDone(c)
    PROVE  ContentStep
<1> DEFINE b == consumer[c].index
           e == enqueuing_capacity.index
<1>1. /\ consumer[c] \in ConsumerRecord
      /\ consumer[c].pc \in {"resize", "insert"}
      /\ UNCHANGED <<enqueuing_capacity, producer>>
  BY Zenon, HolderFacts
     DEF ResizeBuffer, InsertMore, InsertMorePanics, InsertDone, buffer_vars
<1>2. b \in Buffer /\ e \in Buffer /\ b # e
  BY Zenon, <1>1, HolderFacts DEF ConsumerInv, ConsumerRecord
<1>3. buf_capacity'[e] = buf_capacity[e] /\ cells'[e] = cells[e]
  <2>1. CASE ResizeBuffer(c)
    <3>1. /\ \E k : buf_capacity' = [buf_capacity EXCEPT ![b] = k]
          /\ \E k : cells' = [cells EXCEPT ![b] = k]
      BY Zenon, <2>1 DEF ResizeBuffer
    <3> QED
      BY Zenon, <1>2, <3>1 DEF IInv, TypeOK
  <2>2. CASE InsertMore(c) \/ InsertMorePanics(c)
    <3>1. /\ UNCHANGED buf_capacity
          /\ \E k : cells' = [cells EXCEPT ![b] = k]
      BY Zenon, <2>2 DEF InsertMore, InsertMorePanics
    <3> QED
      BY Zenon, <1>2, <3>1 DEF IInv, TypeOK
  <2>3. CASE InsertDone(c)
    BY Zenon, <2>3 DEF InsertDone, buffer_vars
  <2> QED
    BY Zenon, <2>1, <2>2, <2>3
<1>4. consumer'[c].pc \in {"insert", "load", "panicked"}
  <2>1. CASE ResizeBuffer(c)
    <3>1. PICK k : consumer' = [consumer EXCEPT ![c] =
                                   [Goto(@, "insert") EXCEPT !.resized = k]]
      BY Zenon, <2>1 DEF ResizeBuffer
    <3>2. consumer'[c] = [Goto(consumer[c], "insert") EXCEPT !.resized = k]
      BY Zenon, <3>1 DEF IInv, TypeOK
    <3> QED
      BY Zenon, <1>1, <3>2 DEF Goto, ConsumerRecord
  <2>2. CASE InsertMore(c)
    <3>1. PICK k : consumer' = [consumer EXCEPT ![c].inserted = k]
      BY Zenon, <2>2 DEF InsertMore
    <3>2. consumer'[c] = [consumer[c] EXCEPT !.inserted = k]
      BY Zenon, <3>1 DEF IInv, TypeOK
    <3>3. consumer[c].pc = "insert"
      BY Zenon, <2>2 DEF InsertMore
    <3> QED
      BY Zenon, <1>1, <3>2, <3>3 DEF ConsumerRecord
  <2>3. CASE InsertMorePanics(c)
    <3>1. consumer'[c] = Goto(consumer[c], "panicked")
      BY Zenon, <2>3 DEF InsertMorePanics, IInv, TypeOK
    <3> QED
      BY Zenon, <1>1, <3>1 DEF Goto, ConsumerRecord
  <2>4. CASE InsertDone(c)
    <3>1. consumer'[c] = Goto(consumer[c], "load")
      BY Zenon, <2>4 DEF InsertDone, IInv, TypeOK
    <3> QED
      BY Zenon, <1>1, <3>1 DEF Goto, ConsumerRecord
  <2> QED
    BY Zenon, <2>1, <2>2, <2>3, <2>4
<1> QED
  BY Zenon, <1>1, <1>3, <1>4, EmptyHandedStep

\* After the swap, what the new word says of the buffer swapped out is due.
LEMMA PublishStep ==
    ASSUME IInv, IInv', NEW c \in Consumers, PublishCapacity(c)
    PROVE  ContentStep
<1> DEFINE b == consumer[c].seen.index
           n == SwappedLength(c)
<1>1. /\ consumer[c].pc = "notify"
      /\ UNCHANGED <<enqueuing_capacity, dequeuing_length, buffers_length,
                     buf_capacity, cells, producer>>
      /\ consumer'[c] = CASE n > 0 -> At("spin", b, n)
                          [] n = 0 /\ consumer[c].inserted > 0 ->
                                At("load", b, 0)
                          [] OTHER -> At("store", b, 0)
  BY Zenon DEF PublishCapacity, buffer_vars, IInv, TypeOK
<1>2. b \in Buffer /\ n \in Nat /\ IsDue(Buf[b], n)
  BY Zenon, <1>1, NotifyFacts
<1>3. Due = DueFrom(b, n) /\ ~Lent
  BY Zenon, <1>1, DueHeld, DueToBy DEF HasSlice
<1> HIDE DEF n, b
<1>4. /\ n > 0 => /\ consumer'[c].pc = "spin" /\ consumer'[c].index = b
                  /\ consumer'[c].length = n
      /\ n = 0 => \/ consumer'[c].pc = "load"
                  \/ consumer'[c].pc = "store" /\ consumer'[c].length = 0
  <2>1. CASE n > 0
    <3>1. consumer'[c] = At("spin", b, n)
      BY <1>1, <2>1
    <3> QED
      BY <1>2, <2>1, <3>1 DEF At
  <2>2. CASE n = 0
    <3>1. consumer'[c] \in {At("load", b, 0), At("store", b, 0)}
      BY <1>1, <2>2
    <3> QED
      BY <2>2, <3>1 DEF At
  <2> QED
    BY Zenon, <1>2, <2>1, <2>2
<1>5. Due' = DueTo(c)' /\ ~Lent'
  BY <1>2, <1>4, DueHeldNext DEF HasSlice
<1>6. Due' = Due
  <2>1. CASE n > 0
    <3>1. \A d \in Buffer : \A m \in Nat : d = b /\ m = n =>
              DueTo(c)' = DueFrom(d, m)'
      BY Zenon, <1>4, <2>1, DueToByNext
    <3>2. \A d \in Buffer : \A m \in Nat : IsDue(Buf[d], m) =>
              DueFrom(d, m)' = DueFrom(d, m)
      BY Zenon, <1>1, BuffersFrame
    <3>3. DueTo(c)' = DueFrom(b, n)
      BY Zenon, <1>2, <3>1, <3>2
    <3> QED
      BY Zenon, <1>3, <1>5, <3>3
  <2>2. CASE n = 0
    <3>1. DueTo(c)' = <<>>
      BY Zenon, <1>4, <2>2, DueToByNext, NothingDueNext
    <3> QED
      BY Zenon, <1>3, <1>5, <2>2, <3>1, NothingDue
  <2> QED
    BY <1>2, <2>1, <2>2
<1>7. Lent' = Lent
  BY Zenon, <1>3, <1>5 DEF Lent
<1>8. Enqueued' = Enqueued
  BY Zenon, <1>1, BuffersFrame
<1> QED
  BY <1>1, <1>6, <1>7, <1>8, StutterStep

\* try_dequeue_spin gets its slice, which is all that is due, or leaves what is
\* due for a later call.
LEMMA SpinStep ==
    ASSUME IInv, IInv', NEW c \in Consumers, TakeSlice(c) \/ GiveUpSpinning(c)
    PROVE  ContentStep
<1> DEFINE b == consumer[c].index
           n == consumer[c].length
<1>1. /\ consumer[c].pc = "spin"
      /\ UNCHANGED <<enqueuing_capacity, dequeuing_length, buffers_length,
                     buf_capacity, cells, producer>>
  BY Zenon DEF TakeSlice, GiveUpSpinning, buffer_vars
<1>2. /\ b \in Buffer /\ n \in Nat /\ n > 0 /\ IsDue(Buf[b], n)
      /\ consumer[c] \in ConsumerRecord
  BY Zenon, <1>1, SpinFacts, HolderFacts
<1>3. Due = DueFrom(b, n) /\ ~Lent
  BY Zenon, <1>1, DueHeld, DueToBy DEF HasSlice
<1>4. Due # <<>>
  BY <1>2, <1>3, DueFromType, EmptySequence
<1>5. Enqueued' = Enqueued
  BY Zenon, <1>1, BuffersFrame
<1>6. DueFrom(b, n)' = DueFrom(b, n)
  <2>1. b' = b /\ n' = n
    <3>1. CASE TakeSlice(c)
      <4>1. consumer'[c] = [Goto(consumer[c], "slice") EXCEPT
                               !.start = buffers_length[b] - n]
        BY Zenon, <3>1 DEF TakeSlice, IInv, TypeOK
      <4> QED
        BY Zenon, <1>2, <4>1 DEF Goto, ConsumerRecord
    <3>2. CASE GiveUpSpinning(c)
      <4>1. consumer'[c] = Goto(consumer[c], "store")
        BY Zenon, <3>2 DEF GiveUpSpinning, IInv, TypeOK
      <4> QED
        BY Zenon, <1>2, <4>1 DEF Goto, ConsumerRecord
    <3> QED
      BY Zenon, <3>1, <3>2
  <2>2. \A d \in Buffer : \A m \in Nat : IsDue(Buf[d], m) =>
            DueFrom(d, m)' = DueFrom(d, m)
    BY Zenon, <1>1, BuffersFrame
  <2>3. \A d \in Buffer : \A m \in Nat :
            IsDue(Buf[d], m) /\ d = b' /\ m = n' => DueFrom(b, n)' = DueFrom(d, m)
    BY Zenon, <2>2
  <2> QED
    BY Zenon, <1>2, <2>1, <2>3
<1>7. CASE TakeSlice(c)
  <2>1. consumer'[c] = [Goto(consumer[c], "slice") EXCEPT
                           !.start = buffers_length[b] - n]
    BY Zenon, <1>7 DEF TakeSlice, IInv, TypeOK
  <2>2. /\ consumer'[c].pc = "slice" /\ consumer'[c].index = b
        /\ consumer'[c].length = n
        /\ consumer'[c].start = buffers_length[b] - n
    BY Zenon, <1>2, <2>1 DEF Goto, ConsumerRecord
  <2>3. buffers_length[b] >= n
    BY Zenon, <1>7 DEF TakeSlice, SpinDone
  <2>4. DueStart(b, n) = buffers_length[b] - n /\ DueStart(b, n) \in Nat
        /\ DueStart(b, n) + n <= buf_capacity[b]
    BY Zenon, <1>2, <2>3, DueRange
  <2>5. Due' = DueTo(c)' /\ Lent'
    BY Zenon, <2>2, DueHeldNext DEF HasSlice
  <2>6. DueTo(c)' = Region(consumer[c].index, consumer[c].start,
                           consumer[c].length)'
    BY Zenon, <2>2, DueToByNext DEF HasSlice
  <2>7. \A d \in Buffer : \A s, m \in Nat : s + m <= buf_capacity[d] =>
            Region(d, s, m)' = Region(d, s, m)
    BY Zenon, <1>1, BuffersFrame
  <2>8. \A d \in Buffer : \A s, m \in Nat :
            /\ s + m <= buf_capacity[d]
            /\ d = consumer'[c].index /\ s = consumer'[c].start
            /\ m = consumer'[c].length
            => DueTo(c)' = Region(d, s, m)
    BY <2>6, <2>7
  <2>9. DueTo(c)' = Region(b, DueStart(b, n), n)
    BY Zenon, <1>2, <2>2, <2>4, <2>8
  <2>10. Due' = Due
    BY Zenon, <1>3, <2>5, <2>9 DEF DueFrom
  <2> QED
    BY <1>1, <1>3, <1>4, <1>5, <2>5, <2>10, BorrowStep
<1>8. CASE GiveUpSpinning(c)
  <2>1. consumer'[c] = Goto(consumer[c], "store")
    BY Zenon, <1>8 DEF GiveUpSpinning, IInv, TypeOK
  <2>2. consumer'[c].pc = "store"
    BY Zenon, <1>2, <2>1 DEF Goto, ConsumerRecord
  <2>3. Due' = DueTo(c)' /\ ~Lent'
    BY Zenon, <2>2, DueHeldNext DEF HasSlice
  <2>4. DueTo(c)' = DueFrom(b, n)'
    BY Zenon, <2>2, DueToByNext
  <2>5. Due' = Due
    BY Zenon, <1>3, <1>6, <2>3, <2>4
  <2>6. Lent' = Lent
    BY Zenon, <1>3, <2>3 DEF Lent
  <2> QED
    BY Zenon, <1>1, <1>5, <2>5, <2>6, StutterStep
<1> QED
  BY Zenon, <1>7, <1>8

\* A word with a length is not the locked one.
LEMMA UnlockedIs ==
    \A b : \A n \in Nat : \A w : w = DequeuingLength(b, n) =>
        w # DEQUEUING_LOCKED /\ w.index = b /\ w.length = n
  BY DEF DequeuingLength, DEQUEUING_LOCKED

\* The store that ends a call leaves what is due in dequeuing_length.
LEMMA StoreStep ==
    ASSUME IInv, IInv', NEW c \in Consumers, StoreDequeuing(c)
    PROVE  ContentStep
<1> DEFINE b == consumer[c].index
           n == consumer[c].length
<1>1. /\ consumer[c].pc = "store"
      /\ dequeuing_length' = DequeuingLength(b, n)
      /\ UNCHANGED <<enqueuing_capacity, buffers_length, buf_capacity, cells,
                     producer>>
  BY Zenon DEF StoreDequeuing, buffer_vars
<1>2. b \in Buffer /\ n \in Nat /\ IsDue(Buf[b], n)
  BY Zenon, <1>1, SpinFacts
<1>3. Due = DueFrom(b, n) /\ ~Lent
  BY Zenon, <1>1, DueHeld, DueToBy DEF HasSlice
<1> HIDE DEF b, n
<1>4. /\ dequeuing_length' # DEQUEUING_LOCKED
      /\ dequeuing_length'.index = b /\ dequeuing_length'.length = n
  BY Zenon, <1>1, <1>2, UnlockedIs
<1>5. Due' = DueFrom(dequeuing_length.index, dequeuing_length.length)' /\ ~Lent'
  BY Zenon, <1>4, DueFreeNext
<1>6. \A d \in Buffer : \A m \in Nat :
          d = dequeuing_length'.index /\ m = dequeuing_length'.length =>
              Due' = DueFrom(d, m)'
  BY Zenon, <1>5
<1>7. \A d \in Buffer : \A m \in Nat : IsDue(Buf[d], m) =>
          DueFrom(d, m)' = DueFrom(d, m)
  BY Zenon, <1>1, BuffersFrame
<1>8. Due' = Due
  BY Zenon, <1>2, <1>3, <1>4, <1>6, <1>7
<1>9. Lent' = Lent
  BY Zenon, <1>3, <1>5 DEF Lent
<1>10. Enqueued' = Enqueued
  BY Zenon, <1>1, BuffersFrame
<1> QED
  BY Zenon, <1>1, <1>8, <1>9, <1>10, StutterStep

\* What is left in a handle stays due, at the same place, once requeued.
LEMMA RequeueStep ==
    ASSUME IInv, IInv', NEW c \in Consumers, Requeue(c)
    PROVE  ContentStep
<1> DEFINE b == consumer[c].index
           s == consumer[c].start
           n == consumer[c].length
<1>1. /\ HasSlice(c) /\ consumer[c].pc # "idle" /\ n > 0
      /\ dequeuing_length' = DequeuingLength(b, n)
      /\ UNCHANGED <<enqueuing_capacity, buffers_length, buf_capacity, cells,
                     producer>>
  BY Zenon DEF Requeue, HasSlice, buffer_vars
<1>2. /\ b \in Buffer /\ s \in Nat /\ n \in Nat
      /\ buffers_length[b] = s + n /\ s + n <= buf_capacity[b]
  BY Zenon, <1>1, SliceFacts
<1>3. Due = Region(b, s, n) /\ Lent
  BY Zenon, <1>1, DueHeld, DueToBy
<1> HIDE DEF b, n, s
<1>4. /\ dequeuing_length' # DEQUEUING_LOCKED
      /\ dequeuing_length'.index = b /\ dequeuing_length'.length = n
  BY Zenon, <1>1, <1>2, UnlockedIs
<1>5. Due' = DueFrom(dequeuing_length.index, dequeuing_length.length)' /\ ~Lent'
  BY Zenon, <1>4, DueFreeNext
<1>6. \A d \in Buffer : \A m \in Nat :
          d = dequeuing_length'.index /\ m = dequeuing_length'.length =>
              Due' = Region(d, DueStart(d, m), m)'
  BY Zenon, <1>5 DEF DueFrom
<1>7. \A d \in Buffer : \A k, m \in Nat :
          /\ d = dequeuing_length'.index /\ m = dequeuing_length'.length
          /\ k = DueStart(d, m)'
          => Due' = Region(d, k, m)'
  BY Zenon, <1>6
<1>8. \A d \in Buffer : \A m \in Nat :
          d = b /\ m = n => DueStart(d, m)' = s
  BY <1>1, <1>2 DEF DueStart
<1>9. \A d \in Buffer : \A k, m \in Nat : k + m <= buf_capacity[d] =>
          Region(d, k, m)' = Region(d, k, m)
  BY Zenon, <1>1, BuffersFrame
<1>10. Due' = Region(b, s, n)
  BY <1>2, <1>4, <1>7, <1>8, <1>9
<1>11. Enqueued' = Enqueued
  BY Zenon, <1>1, BuffersFrame
<1> QED
  BY Zenon, <1>1, <1>3, <1>5, <1>10, <1>11, GiveBackStep

\* A BufferSlice and the BufferIter it is turned into cover the same cells.
LEMMA HandleStep ==
    ASSUME IInv, IInv', NEW c \in Consumers, IntoIter(c) \/ IntoSlice(c)
    PROVE  ContentStep
<1> DEFINE b == consumer[c].index
           s == consumer[c].start
           n == consumer[c].length
<1>0. /\ HasSlice(c) /\ consumer[c].pc # "idle"
      /\ UNCHANGED <<enqueuing_capacity, buffers_length, buf_capacity, cells,
                     producer>>
      /\ consumer[c] \in ConsumerRecord
  BY Zenon, HolderFacts DEF IntoIter, IntoSlice, HasSlice, buffer_vars
<1>1. /\ HasSlice(c) /\ consumer[c].pc # "idle"
      /\ UNCHANGED <<enqueuing_capacity, buffers_length, buf_capacity, cells,
                     producer>>
      /\ consumer[c] \in ConsumerRecord
      /\ \/ consumer'[c] = Goto(consumer[c], "iter")
         \/ consumer'[c] = Goto(consumer[c], "slice")
  BY Zenon, <1>0 DEF IntoIter, IntoSlice, IInv, TypeOK
<1>2. /\ b \in Buffer /\ s \in Nat /\ n \in Nat /\ s + n <= buf_capacity[b]
  BY Zenon, <1>1, SliceFacts
<1>3. Due = Region(b, s, n) /\ Lent
  BY Zenon, <1>1, DueHeld, DueToBy
<1>4. /\ consumer'[c].index = b /\ consumer'[c].start = s
      /\ consumer'[c].length = n /\ consumer'[c].pc \in {"slice", "iter"}
  BY Zenon, <1>1 DEF Goto, ConsumerRecord
<1>5. Due' = Region(consumer[c].index, consumer[c].start, consumer[c].length)'
      /\ Lent'
  BY Zenon, <1>4, DueHeldNext, DueToByNext DEF HasSlice
<1>6. \A d \in Buffer : \A k, m \in Nat :
          /\ d = consumer'[c].index /\ k = consumer'[c].start
          /\ m = consumer'[c].length
          => Due' = Region(d, k, m)'
  BY Zenon, <1>5
<1>7. \A d \in Buffer : \A k, m \in Nat : k + m <= buf_capacity[d] =>
          Region(d, k, m)' = Region(d, k, m)
  BY Zenon, <1>1, BuffersFrame
<1>8. Due' = Due
  BY Zenon, <1>2, <1>3, <1>4, <1>6, <1>7
<1>9. Lent' = Lent
  BY Zenon, <1>3, <1>5 DEF Lent
<1>10. Enqueued' = Enqueued
  BY Zenon, <1>1, BuffersFrame
<1> QED
  BY Zenon, <1>1, <1>8, <1>9, <1>10, StutterStep

\* release consumes the whole batch.
LEMMA ReleaseStep ==
    ASSUME IInv, IInv', NEW c \in Consumers, Release(c)
    PROVE  ContentStep
<1> DEFINE b == consumer[c].index
           e == enqueuing_capacity.index
<1>1. /\ HasSlice(c) /\ consumer[c].pc # "idle"
      /\ UNCHANGED <<enqueuing_capacity, buf_capacity, producer>>
      /\ consumer'[c] = At("store", b, 0)
      /\ cells' = [cells EXCEPT ![b] =
                       Erase(@, consumer[c].start, consumer[c].length)]
  BY Zenon DEF Release, HasSlice, IInv, TypeOK
<1>2. b \in Buffer /\ b = Other /\ e \in Buffer
  BY Zenon, <1>1, SliceFacts, EnqueuedType
<1>3. cells'[e] = cells[e]
  <2>1. b # e
    BY Zenon, <1>2, HolderFacts
  <2>2. cells \in [Buffer -> [Cell -> Element \cup {Uninit}]]
    BY Zenon DEF IInv, TypeOK
  <2> QED
    BY Zenon, <1>1, <1>2, <2>1, <2>2
<1>4. Lent
  BY Zenon, <1>1, DueHeld
<1>5. consumer'[c].pc = "store" /\ consumer'[c].length = 0
  BY <1>1 DEF At
<1>6. Due' = DueTo(c)' /\ ~Lent'
  BY Zenon, <1>5, DueHeldNext DEF HasSlice
<1>7. DueTo(c)' = <<>>
  BY Zenon, <1>5, DueToByNext, NothingDueNext
<1>8. Enqueued' = Enqueued
  BY Zenon, <1>1, <1>3, EnqueuedFrame
<1> QED
  BY <1>1, <1>4, <1>6, <1>7, <1>8, ConsumeStep

\* A region without its first cell.
LEMMA RegionTail ==
    \A b \in Buffer : \A s, n \in Nat :
        IInv /\ n > 0 /\ s + n <= buf_capacity[b] =>
            /\ Region(b, s + 1, n - 1) = Tail(Region(b, s, n))
            /\ Region(b, s, n) # <<>>
<1> SUFFICES ASSUME NEW b \in Buffer, NEW s \in Nat, NEW n \in Nat, IInv, n > 0,
                    s + n <= buf_capacity[b]
             PROVE  /\ Region(b, s + 1, n - 1) = Tail(Region(b, s, n))
                    /\ Region(b, s, n) # <<>>
  BY Zenon
<1>1. /\ Region(b, s, n) \in Seq(CellValue) /\ Len(Region(b, s, n)) = n
      /\ \A i \in 1..n : Region(b, s, n)[i] = Content(b, s + i - 1)
  BY Zenon, RegionType
<1>2. s + 1 \in Nat /\ n - 1 \in Nat /\ (s + 1) + (n - 1) <= buf_capacity[b]
  BY DEF IInv, TypeOK
<1>3. /\ Region(b, s + 1, n - 1) \in Seq(CellValue)
      /\ Len(Region(b, s + 1, n - 1)) = n - 1
      /\ \A i \in 1..(n - 1) :
            Region(b, s + 1, n - 1)[i] = Content(b, (s + 1) + i - 1)
  BY Zenon, <1>2, RegionType
<1>4. \A i \in 1..(n - 1) :
          Region(b, s + 1, n - 1)[i] = Region(b, s, n)[i + 1]
  <2>1. SUFFICES ASSUME NEW i \in 1..(n - 1)
                 PROVE  Region(b, s + 1, n - 1)[i] = Region(b, s, n)[i + 1]
    BY Zenon
  <2>2. i + 1 \in 1..n /\ (s + 1) + i - 1 = s + (i + 1) - 1
    OBVIOUS
  <2> QED
    BY Zenon, <1>1, <1>3, <2>2
<1>5. \A q, r \in Seq(CellValue) :
          /\ Len(q) = n /\ Len(r) = n - 1
          /\ \A i \in 1..(n - 1) : r[i] = q[i + 1]
          => r = Tail(q) /\ q # <<>>
  OBVIOUS
<1> QED
  BY Zenon, <1>1, <1>3, <1>4, <1>5

\* BufferIter::next consumes the first element of the batch.
LEMMA NextValueStep ==
    ASSUME IInv, IInv', NEW c \in Consumers, NextValue(c)
    PROVE  ContentStep
<1> DEFINE b == consumer[c].index
           s == consumer[c].start
           n == consumer[c].length
           e == enqueuing_capacity.index
<1>1. /\ HasSlice(c) /\ consumer[c].pc = "iter" /\ n > 0
      /\ UNCHANGED <<enqueuing_capacity, buf_capacity, producer>>
      /\ consumer[c] \in ConsumerRecord
      /\ cells' = [cells EXCEPT ![b] = Erase(@, s, 1)]
  BY Zenon, HolderFacts DEF NextValue, HasSlice
<1>2. consumer'[c] = [consumer[c] EXCEPT !.start = s + 1, !.length = n - 1]
  BY Zenon DEF NextValue, IInv, TypeOK
<1>3. /\ b \in Buffer /\ s \in Nat /\ n \in Nat /\ s + n <= buf_capacity[b]
      /\ b = Other /\ Owed[b] = {} /\ e \in Buffer
  BY Zenon, <1>1, SliceFacts, EnqueuedType
<1>4. Due = Region(b, s, n) /\ Lent
  BY Zenon, <1>1, DueHeld, DueToBy
<1>5. /\ consumer'[c].index = b /\ consumer'[c].start = s + 1
      /\ consumer'[c].length = n - 1 /\ consumer'[c].pc = "iter"
  BY Zenon, <1>1, <1>2 DEF ConsumerRecord
<1>6. Due' = Region(consumer[c].index, consumer[c].start, consumer[c].length)'
      /\ Lent'
  BY Zenon, <1>5, DueHeldNext, DueToByNext DEF HasSlice
<1>7. \A d \in Buffer : \A k, m \in Nat :
          /\ d = consumer'[c].index /\ k = consumer'[c].start
          /\ m = consumer'[c].length
          => Due' = Region(d, k, m)'
  BY Zenon, <1>6
<1>8. cells'[e] = cells[e]
  <2>1. b # e
    BY Zenon, <1>3, HolderFacts
  <2>2. cells \in [Buffer -> [Cell -> Element \cup {Uninit}]]
    BY Zenon DEF IInv, TypeOK
  <2> QED
    BY Zenon, <1>1, <1>3, <2>1, <2>2
<1>9. Enqueued' = Enqueued
  BY Zenon, <1>1, <1>8, EnqueuedFrame
<1>10. \A i \in Cell : i # s => Content(b, i)' = Content(b, i)
  <2>1. SUFFICES ASSUME NEW i \in Cell, i # s
                 PROVE  Content(b, i)' = Content(b, i)
    BY Zenon
  <2>2. cells'[b][i] = cells[b][i]
    <3>1. cells'[b] = Erase(cells[b], s, 1)
      BY Zenon, <1>1, <1>3 DEF IInv, TypeOK
    <3> QED
      BY <1>3, <2>1, <3>1 DEF Erase, Cell
  <2>3. \A d \in Buffer : cells'[d][i] = cells[d][i] =>
            Content(d, i)' = Content(d, i)
    BY Zenon, <1>1, ContentFrame
  <2>4. \A d \in Buffer : cells'[d][i] = cells[d][i] /\ d = b' =>
            Content(b, i)' = Content(d, i)
    BY Zenon, <2>3
  <2> QED
    BY Zenon, <1>3, <1>5, <2>2, <2>4
<1>11. \A d \in Buffer : d = b => \A k, m \in Nat : k = s + 1 /\ m = n - 1 =>
           Region(d, k, m)' = Region(d, k, m)
  <2>1. \A d \in Buffer : d = b => \A i \in Cell : i # s =>
            Content(d, i)' = Content(d, i)
    BY Zenon, <1>5, <1>10
  <2>2. SUFFICES ASSUME NEW d \in Buffer, d = b, NEW k \in Nat, NEW m \in Nat,
                        k = s + 1, m = n - 1
                 PROVE  Region(d, k, m)' = Region(d, k, m)
    BY Zenon
  <2>3. k + m <= buf_capacity[d]
    BY <1>1, <1>3, <2>2
  <2>4. \A i \in Cell : k <= i /\ i < k + m => Content(d, i)' = Content(d, i)
    BY <1>3, <2>1, <2>2 DEF Cell
  <2> QED
    BY Zenon, <2>3, <2>4, RegionSame
<1>12. Due' = Region(b, s + 1, n - 1)
  BY <1>1, <1>3, <1>5, <1>7, <1>11
<1> HIDE DEF b, s, n
<1>13. Due' = Tail(Due) /\ Due # <<>>
  BY Zenon, <1>1, <1>3, <1>4, <1>12, RegionTail
<1> QED
  BY Zenon, <1>1, <1>4, <1>6, <1>9, <1>13, DrainStep

\* What is reserved is due from the first cell.
LEMMA ReservedStart ==
    \A b \in Buffer : \A n \in Nat :
        IInv /\ Reserved(Buf[b], n) => DueStart(b, n) = 0
<1> SUFFICES ASSUME NEW b \in Buffer, NEW n \in Nat, IInv, Reserved(Buf[b], n)
             PROVE  DueStart(b, n) = 0
  BY Zenon
<1>1. Owed[b] # {} => DueStart(b, n) = 0
  BY Zenon, DueRange DEF IsDue
<1>2. CASE Owed[b] = {}
  <2>1. Buf[b].owed = {} /\ Buf[b].acked = buffers_length[b]
    BY Zenon, <1>2 DEF Buf
  <2>2. buffers_length[b] + Cardinality({}) = n
    BY Zenon, <2>1 DEF Reserved
  <2>3. buffers_length[b] = n
    BY <2>2, FS_EmptySet DEF IInv, TypeOK
  <2> QED
    BY <2>3 DEF DueStart
<1> QED
  BY Zenon, <1>1, <1>2

\* The swap makes what is reserved due, and adds what the closure inserted.
LEMMA SwapBuffersStep ==
    ASSUME IInv, IInv', InsertedInv, NEW c \in Consumers, SwapBuffers(c)
    PROVE  ContentStep
<1> DEFINE b == consumer[c].index
           e == consumer[c].seen.index
           n == SwappedLength(c)
           k == consumer[c].inserted
<1>1. /\ consumer[c].pc = "swap"
      /\ consumer[c].seen = enqueuing_capacity
      /\ UNCHANGED <<dequeuing_length, buffers_length, buf_capacity, cells,
                     producer>>
      /\ consumer[c] \in ConsumerRecord
      /\ consumer'[c] = Goto(consumer[c], "notify")
  BY Zenon, HolderFacts DEF SwapBuffers, buffer_vars, IInv, TypeOK
<1>2. /\ enqueuing_capacity'.index = b
      /\ enqueuing_capacity'.remaining = buf_capacity[b] - k
      /\ enqueuing_capacity'.closed = enqueuing_capacity.closed
  BY Zenon, <1>1 DEF SwapBuffers, WithClosed, EnqueuingCapacity
<1>3. /\ consumer'[c].pc = "notify" /\ consumer'[c].seen = consumer[c].seen
  BY Zenon, <1>1 DEF Goto, ConsumerRecord
<1>4. ConsumerInv(c)
  BY Zenon DEF IInv
<1>5. /\ b \in Buffer /\ e \in Buffer /\ k \in Nat /\ k <= buf_capacity[b]
      /\ Owed[b] = {} /\ buf_capacity[b] \in 0..MaxCapacity
  <2>1. Prepared(Buf[b], k)
    BY Zenon, <1>1, <1>4 DEF ConsumerInv
  <2>2. b \in Buffer /\ e \in Buffer
    BY Zenon, <1>1, EnqueuedType DEF ConsumerRecord
  <2>3. Buf[b].owed = Owed[b] /\ Buf[b].capa = buf_capacity[b]
    BY Zenon, <2>2 DEF Buf
  <2>4. buf_capacity[b] \in 0..MaxCapacity
    BY Zenon, <2>2 DEF IInv, TypeOK
  <2> QED
    BY <2>1, <2>2, <2>3, <2>4 DEF Prepared, Settled
<1>6. /\ n \in Nat /\ Reserved(Buf[e], n) /\ n <= buf_capacity[e]
      /\ Enqueued = Region(e, 0, n)
  <2>1. n = buf_capacity[e] - enqueuing_capacity.remaining
        /\ e = enqueuing_capacity.index
    BY Zenon, <1>1 DEF SwappedLength
  <2>2. Reserved(Buf[e], n)
    BY Zenon, <2>1 DEF IInv, EnqueuingInv
  <2>3. n \in Nat /\ buf_capacity[e] \in Nat /\ enqueuing_capacity.remaining \in Nat
    BY <2>1, EnqueuedType
  <2> QED
    BY <2>1, <2>2, <2>3 DEF Enqueued
<1>7. Due = <<>> /\ ~Lent
  BY Zenon, <1>1, DueHeld, DueToBy DEF HasSlice
<1>8. Due' = DueFrom(consumer[c].seen.index, SwappedLength(c))' /\ ~Lent'
  BY Zenon, <1>3, DueHeldNext, DueToByNext DEF HasSlice
<1>9. SwappedLength(c)' = n /\ consumer'[c].seen.index = e
  BY Zenon, <1>1, <1>3 DEF SwappedLength
<1>10. \A d \in Buffer : \A m \in Nat :
           d = consumer'[c].seen.index /\ m = SwappedLength(c)' =>
               Due' = DueFrom(d, m)'
  BY Zenon, <1>8
<1>11. /\ \A d \in Buffer : \A m \in Nat : IsDue(Buf[d], m) =>
              DueFrom(d, m)' = DueFrom(d, m)
       /\ \A d \in Buffer : \A s, m \in Nat : s + m <= buf_capacity[d] =>
              Region(d, s, m)' = Region(d, s, m)
  BY Zenon, <1>1, BuffersFrame
<1> HIDE DEF n
<1>12. Due' = DueFrom(e, n)
  <2> HIDE DEF e
  <2> QED
    BY Zenon, <1>5, <1>6, <1>9, <1>10, <1>11 DEF IsDue
<1>13. Due' = Enqueued
  BY Zenon, <1>5, <1>6, <1>12, ReservedStart DEF DueFrom
<1>14. Enqueued' = Region(enqueuing_capacity.index, 0,
                          buf_capacity[enqueuing_capacity.index]
                            - enqueuing_capacity.remaining)'
  BY Zenon DEF Enqueued
<1>15. \A d \in Buffer : \A m \in Nat :
           /\ d = enqueuing_capacity'.index
           /\ m = buf_capacity'[enqueuing_capacity'.index]
                    - enqueuing_capacity'.remaining
           => Enqueued' = Region(d, 0, m)'
  BY Zenon, <1>14
<1>16. buf_capacity'[enqueuing_capacity'.index] - enqueuing_capacity'.remaining = k
  BY <1>1, <1>2, <1>5
<1>17. Enqueued' = Region(b, 0, k)
  <2> HIDE DEF b, k
  <2> QED
    BY <1>2, <1>5, <1>11, <1>15, <1>16
<1>18. \A i \in 1..Len(Enqueued') : Enqueued'[i] \in InsertedElements
  <2>1. Len(Region(b, 0, k)) = k
        /\ \A i \in 1..k : Region(b, 0, k)[i] = Content(b, 0 + i - 1)
    <3> HIDE DEF b, k
    <3>1. 0 \in Nat /\ 0 + k <= buf_capacity[b]
      BY <1>5
    <3> QED
      BY Zenon, <1>5, <3>1, RegionType
  <2>2. \A i \in 0..(k - 1) : i \in Cell
    BY <1>5, QueueAssumption DEF Cell, QueueAssumption
  <2>3. \A i \in 0..(k - 1) : Content(b, i) = cells[b][i]
    BY Zenon, <1>5, <2>2, NoWriters, ContentThere
  <2>4. \A i \in 0..(k - 1) : cells[b][i] \in InsertedElements
    BY Zenon, <1>1 DEF InsertedInv
  <2>5. \A i \in 1..k : 0 + i - 1 \in 0..(k - 1)
    BY <1>5
  <2> QED
    BY Zenon, <1>17, <2>1, <2>3, <2>4, <2>5
<1> QED
  BY Zenon, <1>2, <1>7, <1>8, <1>13, <1>18, SwapStep
=============================================================================
