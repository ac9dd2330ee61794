------------------------- MODULE PackedWordsProofs -------------------------
(***************************************************************************)
(* The bits of the packed words are the records of Words at every width:   *)
(* PackedInv is an inductive invariant, and both words decode.  The sizes  *)
(* reserved are those whose size << 1 does not wrap, up to MAX \div 2; the *)
(* code has no guard against larger ones.                                  *)
(***************************************************************************)
EXTENDS PackedWords, TLAPS

\* The layout of a word: four equal parts, the flag at half of them.
LEMMA Layout ==
    \E h \in Nat : /\ h >= 2 /\ Modulus = 4 * h /\ MAX = 4 * h - 1
                   /\ CLOSED_FLAG = 2 * h /\ LOCKED = 4 * h - 1
                   /\ MAX \div 2 = 2 * h - 1 /\ MAX \div 4 = h - 1
<1>1. PICK h \in Nat : Modulus = 4 * h
  <2>1. Modulus \in Nat /\ Modulus % 4 = 0
    BY PackedAssumption
  <2>2. Modulus = 4 * (Modulus \div 4) /\ Modulus \div 4 \in Nat
    BY <2>1
  <2> QED
    BY <2>2
<1>2. h >= 2
  BY <1>1, PackedAssumption
<1>3. MAX = 4 * h - 1
  BY <1>1 DEF MAX
<1>4. MAX \div 2 = 2 * h - 1 /\ MAX \div 4 = h - 1
  BY <1>2, <1>3
<1> QED
  BY <1>1, <1>2, <1>3, <1>4 DEF CLOSED_FLAG, LOCKED

\* Division by a number that goes zero times or once.
LEMMA Once ==
    ASSUME NEW c \in Nat, c > 0, NEW x \in Nat
    PROVE  /\ x < c => x % c = x /\ x \div c = 0
           /\ c <= x /\ x < 2 * c => x % c = x - c /\ x \div c = 1
  OBVIOUS

\* The parts of an enqueuing word.
LEMMA EnqueuingParts ==
    ASSUME NEW index \in {0, 1}, NEW room \in Nat, NEW closed \in BOOLEAN,
           CheckOverflow(room), NEW word,
           word = index + 2 * room + (IF closed THEN CLOSED_FLAG ELSE 0)
    PROVE  /\ word \in Nat
           /\ BufferIndex(word) = index /\ RemainingCapacity(word) = room
           /\ IsClosed(word) <=> closed
           /\ word % CLOSED_FLAG = index + 2 * room
<1>1. PICK h \in Nat : h >= 2 /\ CLOSED_FLAG = 2 * h /\ MAX \div 4 = h - 1
  BY Layout
<1>2. room < h - 1
  BY <1>1 DEF CheckOverflow
<1> DEFINE low == index + 2 * room
           c == 2 * h
<1>3. /\ low \in Nat /\ c \in Nat /\ c > 0 /\ low < c /\ c + low \in Nat
      /\ c <= c + low /\ c + low < 2 * c /\ (c + low) - c = low
  BY <1>1, <1>2
<1>4. low % 2 = index /\ low \div 2 = room /\ (c + low) % 2 = index
  BY <1>1
<1>5. /\ low % c = low /\ low \div c = 0
      /\ (c + low) % c = low /\ (c + low) \div c = 1
  <2> HIDE DEF low, c
  <2> QED
    BY <1>3, Once
<1>6. word = IF closed THEN c + low ELSE low
  BY <1>1, <1>3
<1> HIDE DEF low, c
<1>7. CLOSED_FLAG = c
  BY <1>1 DEF c
<1>8. CASE closed
  BY <1>3, <1>4, <1>5, <1>6, <1>7, <1>8
     DEF BufferIndex, RemainingCapacity, IsClosed, low
<1>9. CASE ~closed
  BY <1>3, <1>4, <1>5, <1>6, <1>7, <1>9
     DEF BufferIndex, RemainingCapacity, IsClosed, low
<1> QED
  BY <1>8, <1>9

\* A shift of a number below half of the range doubles it.
LEMMA Shifted ==
    ASSUME NEW a \in Nat, a <= MAX \div 2
    PROVE  ShiftLeft(a) = 2 * a
<1>1. PICK h \in Nat : h >= 2 /\ Modulus = 4 * h /\ MAX \div 2 = 2 * h - 1
  BY Layout
<1>2. 2 * a \in Nat /\ Modulus \in Nat /\ Modulus > 0 /\ 2 * a < Modulus
  BY <1>1
<1> QED
  BY <1>2, Once DEF ShiftLeft

\* What check_overflow lets pass.
LEMMA Checked ==
    ASSUME NEW capa \in Nat, CheckOverflow(capa)
    PROVE  /\ ShiftLeft(capa) = 2 * capa
           /\ \A index \in {0, 1} : index + 2 * capa < LOCKED
<1>1. PICK h \in Nat : /\ h >= 2 /\ LOCKED = 4 * h - 1
                       /\ MAX \div 2 = 2 * h - 1 /\ MAX \div 4 = h - 1
  BY Layout
<1>2. capa <= MAX \div 2
  BY <1>1 DEF CheckOverflow
<1> QED
  BY <1>1, <1>2, Shifted DEF CheckOverflow

\* What a record stands for.
EnqueuingIs(word, index, room, closed) ==
    word = index + 2 * room + IF closed THEN CLOSED_FLAG ELSE 0

\* PackedInv of the enqueuing word, by its fields.
LEMMA EnqueuingInv ==
    ASSUME PackedInv
    PROVE  \E index \in {0, 1}, room \in Nat, closed \in BOOLEAN :
              /\ seen_enqueuing = [index |-> index, remaining |-> room,
                                   closed |-> closed]
              /\ CheckOverflow(room)
              /\ EnqueuingIs(enqueuing, index, room, closed)
<1>1. /\ seen_enqueuing.index \in {0, 1} /\ seen_enqueuing.remaining \in Nat
      /\ seen_enqueuing.closed \in BOOLEAN
      /\ seen_enqueuing = [index |-> seen_enqueuing.index,
                           remaining |-> seen_enqueuing.remaining,
                           closed |-> seen_enqueuing.closed]
  BY DEF PackedInv
<1>2. /\ CheckOverflow(seen_enqueuing.remaining)
      /\ EnqueuingIs(enqueuing, seen_enqueuing.index, seen_enqueuing.remaining,
                     seen_enqueuing.closed)
  BY DEF PackedInv, EnqueuingIs
<1> QED
  BY <1>1, <1>2, Zenon

\* A step that leaves the dequeuing word alone keeps PackedInv when the new
\* enqueuing word is its record.
LEMMA EnqueuingStep ==
    ASSUME PackedInv, UNCHANGED <<dequeuing, seen_dequeuing>>,
           NEW index \in {0, 1}, NEW room \in Nat, NEW closed \in BOOLEAN,
           seen_enqueuing' = [index |-> index, remaining |-> room,
                              closed |-> closed],
           CheckOverflow(room), EnqueuingIs(enqueuing', index, room, closed)
    PROVE  PackedInv'
<1>1. /\ seen_enqueuing' \in [index : {0, 1}, remaining : Nat, closed : BOOLEAN]
      /\ seen_enqueuing'.index = index /\ seen_enqueuing'.remaining = room
      /\ seen_enqueuing'.closed = closed
  BY Zenon
<1>2. enqueuing' = seen_enqueuing'.index + 2 * seen_enqueuing'.remaining
                   + IF seen_enqueuing'.closed THEN CLOSED_FLAG ELSE 0
  BY <1>1, Zenon DEF EnqueuingIs
<1>3. CheckOverflow(seen_enqueuing'.remaining)
  BY <1>1, Zenon
<1> QED
  BY <1>1, <1>2, <1>3, Zenon DEF PackedInv, CheckOverflow

\* A new queue.
LEMMA InitInv == Init => PackedInv
<1> SUFFICES ASSUME NEW capa \in Capacity, NewAssert(capa),
                    enqueuing = New(0, capa), dequeuing = NewLength(1, 0),
                    seen_enqueuing = EnqueuingCapacity(0, capa, FALSE),
                    seen_dequeuing = DequeuingLength(1, 0)
             PROVE  PackedInv
  BY Zenon DEF Init
<1>1. capa \in Nat /\ CheckOverflow(capa)
  <2>1. MAX \in Nat
    BY Layout
  <2> QED
    BY <2>1 DEF Capacity
<1>2. ShiftLeft(capa) = 2 * capa
  BY <1>1, Checked
<1>3. CheckOverflow(0) /\ ShiftLeft(0) = 2 * 0
  <2>1. CheckOverflow(0)
    BY Layout DEF CheckOverflow
  <2> QED
    BY <2>1, Checked
<1> QED
  BY <1>1, <1>2, <1>3
     DEF PackedInv, EnqueuingCapacity, DequeuingLength, New, NewLength

\* try_reserve subtracts from the room alone.
LEMMA TryEnqueueInv ==
    ASSUME PackedInv, MaxSize <= MAX \div 2,
           NEW size \in 1..MaxSize, TryEnqueue(size)
    PROVE  PackedInv'
<1>1. PICK index \in {0, 1}, room \in Nat, closed \in BOOLEAN :
          /\ seen_enqueuing = [index |-> index, remaining |-> room,
                               closed |-> closed]
          /\ CheckOverflow(room)
          /\ EnqueuingIs(enqueuing, index, room, closed)
  BY EnqueuingInv
<1>2. ~closed
  BY <1>1, EnqueuingParts DEF TryEnqueue, EnqueuingIs
<1>3. enqueuing = index + 2 * room
  BY <1>1, <1>2 DEF EnqueuingIs
<1>4. size \in Nat /\ size >= 1 /\ MaxSize \in Nat /\ size <= MAX \div 2
  BY PackedAssumption, Layout
<1>5. ShiftLeft(size) = 2 * size
  BY <1>4, Shifted
<1>6. CanReserve(seen_enqueuing, size) <=> size <= room
  BY <1>1 DEF CanReserve
<1>7. Reserves(enqueuing, size) <=> size <= room
  BY <1>3, <1>4, <1>5 DEF Reserves
<1>8. UNCHANGED <<dequeuing, seen_dequeuing>>
  BY DEF TryEnqueue
<1>9. CASE size <= room
  <2>1. /\ enqueuing' = Reserve(enqueuing, size)
        /\ seen_enqueuing' = TryReserve(seen_enqueuing, size)
    BY <1>6, <1>7, <1>9 DEF TryEnqueue
  <2>2. room - size \in Nat
    BY <1>4, <1>9
  <2>3. seen_enqueuing' = [index |-> index, remaining |-> room - size,
                           closed |-> closed]
    BY <1>1, <2>1 DEF TryReserve
  <2>4. EnqueuingIs(enqueuing', index, room - size, closed)
    BY <1>2, <1>3, <1>4, <1>5, <1>9, <2>1 DEF EnqueuingIs, Reserve
  <2>5. CheckOverflow(room - size)
    BY <1>1, <1>4, <1>9, Layout DEF CheckOverflow
  <2> QED
    BY <1>8, <2>2, <2>3, <2>4, <2>5, EnqueuingStep, Zenon
<1>10. CASE ~(size <= room)
  <2>1. enqueuing' = enqueuing /\ seen_enqueuing' = seen_enqueuing
    BY <1>6, <1>7, <1>10 DEF TryEnqueue
  <2> QED
    BY <1>1, <1>8, <2>1, EnqueuingStep, Zenon
<1> QED
  BY <1>9, <1>10

\* A new word carries the flag of the one it replaces.
LEMMA SwapInv ==
    ASSUME PackedInv, NEW room \in Capacity, Swap(room)
    PROVE  PackedInv'
<1>1. PICK index \in {0, 1}, old \in Nat, closed \in BOOLEAN :
          /\ seen_enqueuing = [index |-> index, remaining |-> old,
                               closed |-> closed]
          /\ CheckOverflow(old)
          /\ EnqueuingIs(enqueuing, index, old, closed)
  BY EnqueuingInv
<1>2. BufferIndex(enqueuing) = index /\ (IsClosed(enqueuing) <=> closed)
  BY <1>1, EnqueuingParts DEF EnqueuingIs
<1>3. room \in Nat /\ CheckOverflow(room)
  <2>1. MAX \in Nat
    BY Layout
  <2> QED
    BY <2>1 DEF Capacity
<1> DEFINE next == 1 - index
           word == New(next, room)
<1>4. next \in {0, 1}
  OBVIOUS
<1>5. enqueuing' = Carrying(word, enqueuing)
  BY <1>2 DEF Swap
<1>6. seen_enqueuing' = [index |-> next, remaining |-> room, closed |-> closed]
  BY <1>1 DEF Swap, WithClosed, EnqueuingCapacity
<1>7. UNCHANGED <<dequeuing, seen_dequeuing>>
  BY DEF Swap
<1>8. word = next + 2 * room
  BY <1>3, Checked DEF New
<1> HIDE DEF next
<1>9. ~IsClosed(word)
  <2> DEFINE b == 1 = 2
  <2>1. b \in BOOLEAN /\ ~b
    OBVIOUS
  <2> HIDE DEF b
  <2>2. word = next + 2 * room + (IF b THEN CLOSED_FLAG ELSE 0)
    BY <1>3, <1>4, <1>8, <2>1
  <2> HIDE DEF word
  <2>3. IsClosed(word) <=> b
    BY <1>3, <1>4, <2>1, <2>2, EnqueuingParts
  <2> QED
    BY <2>1, <2>3
<1> HIDE DEF word
<1>10. EnqueuingIs(enqueuing', next, room, closed)
  <2>1. CASE closed
    BY <1>2, <1>5, <1>8, <1>9, <2>1 DEF Carrying, Closed, EnqueuingIs
  <2>2. CASE ~closed
    BY <1>2, <1>3, <1>4, <1>5, <1>8, <2>2 DEF Carrying, EnqueuingIs
  <2> QED
    BY <2>1, <2>2
<1> QED
  BY <1>3, <1>4, <1>6, <1>7, <1>10, EnqueuingStep, Zenon

\* close and reopen set and clear the flag alone.
LEMMA CloseInv ==
    ASSUME PackedInv, Close \/ Reopen
    PROVE  PackedInv'
<1>1. PICK index \in {0, 1}, room \in Nat, closed \in BOOLEAN :
          /\ seen_enqueuing = [index |-> index, remaining |-> room,
                               closed |-> closed]
          /\ CheckOverflow(room)
          /\ EnqueuingIs(enqueuing, index, room, closed)
  BY EnqueuingInv
<1>2. /\ IsClosed(enqueuing) <=> closed
      /\ enqueuing % CLOSED_FLAG = index + 2 * room
  BY <1>1, EnqueuingParts DEF EnqueuingIs
<1>3. UNCHANGED <<dequeuing, seen_dequeuing>>
  BY Zenon DEF Close, Reopen
<1>4. CASE Close
  <2>1. seen_enqueuing' = [index |-> index, remaining |-> room, closed |-> TRUE]
    BY <1>1, <1>4, Zenon DEF Close, SetClosed
  <2>2. EnqueuingIs(enqueuing', index, room, TRUE)
    <3>1. CASE closed
      BY <1>1, <1>2, <1>4, <3>1 DEF Close, Closed, EnqueuingIs
    <3>2. CASE ~closed
      <4>1. enqueuing = index + 2 * room /\ enqueuing' = enqueuing + CLOSED_FLAG
        BY <1>1, <1>2, <1>4, <3>2 DEF Close, Closed, EnqueuingIs
      <4> QED
        BY <4>1 DEF EnqueuingIs
    <3> QED
      BY <3>1, <3>2, Zenon
  <2>3. TRUE \in BOOLEAN
    OBVIOUS
  <2> QED
    BY <1>1, <1>3, <2>1, <2>2, <2>3, EnqueuingStep, Zenon
<1>5. CASE Reopen
  <2>1. seen_enqueuing' = [index |-> index, remaining |-> room, closed |-> FALSE]
    BY <1>1, <1>5, Zenon DEF Reopen, SetClosed
  <2>2. EnqueuingIs(enqueuing', index, room, FALSE)
    BY <1>2, <1>5 DEF Reopen, Reopened, EnqueuingIs
  <2>3. FALSE \in BOOLEAN
    OBVIOUS
  <2> QED
    BY <1>1, <1>3, <2>1, <2>2, <2>3, EnqueuingStep, Zenon
<1> QED
  BY <1>4, <1>5

\* The lock is taken, or a length stored.
LEMMA DequeuingInv ==
    ASSUME PackedInv,
           \/ LockDequeuing
           \/ \E index \in {0, 1}, length \in Capacity :
                 StoreDequeuing(index, length)
    PROVE  PackedInv'
<1>1. UNCHANGED <<enqueuing, seen_enqueuing>>
  BY DEF LockDequeuing, StoreDequeuing
<1>2. \/ dequeuing' = LOCKED /\ seen_dequeuing' = DEQUEUING_LOCKED
      \/ /\ seen_dequeuing' \in [index : {0, 1}, length : Nat]
         /\ CheckOverflow(seen_dequeuing'.length)
         /\ dequeuing' = seen_dequeuing'.index + 2 * seen_dequeuing'.length
  <2>1. CASE LockDequeuing
    BY <2>1 DEF LockDequeuing
  <2>2. ASSUME NEW index \in {0, 1}, NEW length \in Capacity,
               StoreDequeuing(index, length)
        PROVE  <1>2!2
    <3>1. MAX \in Nat
      BY Layout
    <3>2. length \in Nat /\ CheckOverflow(length)
      BY <3>1 DEF Capacity
    <3>3. ShiftLeft(length) = 2 * length
      BY <3>2, Checked
    <3> QED
      BY <2>2, <3>2, <3>3 DEF StoreDequeuing, NewLength, DequeuingLength
  <2> QED
    BY <2>1, <2>2
<1> QED
  BY <1>1, <1>2, Zenon DEF PackedInv, CheckOverflow

\* Every call the queue makes on the words keeps the layout.
LEMMA NextInv ==
    ASSUME MaxSize <= MAX \div 2
    PROVE  PackedInv /\ [Next]_vars => PackedInv'
<1> SUFFICES ASSUME PackedInv, [Next]_vars PROVE PackedInv'
  OBVIOUS
<1>1. CASE UNCHANGED vars
  BY <1>1, Zenon DEF vars, PackedInv, CheckOverflow
<1>2. CASE \E size \in 1..MaxSize : TryEnqueue(size)
  BY <1>2, TryEnqueueInv
<1>3. CASE \E room \in Capacity : Swap(room)
  BY <1>3, SwapInv
<1>4. CASE Close \/ Reopen
  BY <1>4, CloseInv
<1>5. CASE \/ LockDequeuing
           \/ \E index \in {0, 1}, length \in Capacity :
                 StoreDequeuing(index, length)
  BY <1>5, DequeuingInv
<1> QED
  BY <1>1, <1>2, <1>3, <1>4, <1>5, Zenon DEF Next

\* At every width, through any sequence of reservations, swaps, closes and
\* reopens, the words are the records bit by bit, provided size << 1 does not
\* wrap.
THEOREM PackedInvariance ==
    ASSUME MaxSize <= MAX \div 2
    PROVE  Spec => []PackedInv
<1>1. Init => PackedInv
  BY InitInv
<1>2. PackedInv /\ [Next]_vars => PackedInv'
  BY NextInv
<1> QED
  BY <1>1, <1>2, PTL DEF Spec

\* The index, the room and the flag read from the enqueuing word are those the
\* queue works with.
THEOREM EnqueuingDecoded ==
    ASSUME MaxSize <= MAX \div 2
    PROVE  Spec => []EnqueuingDecodes
<1>1. PackedInv => EnqueuingDecodes
  <2> SUFFICES ASSUME PackedInv PROVE EnqueuingDecodes
    OBVIOUS
  <2>1. PICK index \in {0, 1}, room \in Nat, closed \in BOOLEAN :
            /\ seen_enqueuing = [index |-> index, remaining |-> room,
                                 closed |-> closed]
            /\ CheckOverflow(room)
            /\ EnqueuingIs(enqueuing, index, room, closed)
    BY EnqueuingInv
  <2>2. /\ BufferIndex(enqueuing) = index /\ RemainingCapacity(enqueuing) = room
        /\ IsClosed(enqueuing) <=> closed
    BY <2>1, EnqueuingParts DEF EnqueuingIs
  <2>3. IsClosed(enqueuing) = closed
    BY <2>2, Zenon DEF IsClosed
  <2> QED
    BY <2>1, <2>2, <2>3, Zenon DEF EnqueuingDecodes, EnqueuingCapacity
<1>2. Spec => []PackedInv
  BY PackedInvariance
<1> QED
  BY <1>1, <1>2, PTL

\* No length is taken for the lock, and the index and the length read from the
\* dequeuing word are those the queue works with.
THEOREM DequeuingDecoded ==
    ASSUME MaxSize <= MAX \div 2
    PROVE  Spec => []DequeuingDecodes
<1>1. PackedInv => DequeuingDecodes
  <2> SUFFICES ASSUME PackedInv PROVE DequeuingDecodes
    OBVIOUS
  <2>1. CASE dequeuing = LOCKED /\ seen_dequeuing = DEQUEUING_LOCKED
    BY <2>1 DEF DequeuingDecodes, IsConflict
  <2>2. CASE /\ seen_dequeuing \in [index : {0, 1}, length : Nat]
             /\ CheckOverflow(seen_dequeuing.length)
             /\ dequeuing = seen_dequeuing.index + 2 * seen_dequeuing.length
    <3>1. PICK index \in {0, 1}, length \in Nat :
              /\ seen_dequeuing = [index |-> index, length |-> length]
              /\ CheckOverflow(length) /\ dequeuing = index + 2 * length
      BY <2>2
    <3>2. dequeuing # LOCKED
      <4>1. index + 2 * length < LOCKED /\ LOCKED \in Nat
        BY <3>1, Checked, Layout
      <4> QED
        BY <3>1, <4>1
    <3>3. dequeuing % 2 = index /\ dequeuing \div 2 = length
      BY <3>1
    <3> QED
      BY <3>1, <3>2, <3>3
         DEF DequeuingDecodes, IsConflict, BufferIndex, BufferLen, DequeuingLength
  <2> QED
    BY <2>1, <2>2 DEF PackedInv
<1>2. Spec => []PackedInv
  BY PackedInvariance
<1> QED
  BY <1>1, <1>2, PTL
=============================================================================
