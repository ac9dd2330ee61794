---------------------------- MODULE PackedWords ----------------------------
(***************************************************************************)
(* The bits of EnqueuingCapacity and DequeuingLength (src/src/queue.rs),   *)
(* in words of any width, next to the records of module Words that Queue   *)
(* works with:                                                             *)
(*    enqueuing:  | closed flag |  remaining capacity  | buffer index |    *)
(*    dequeuing:  |       dequeuing length             | buffer index |    *)
(* The words go through the calls a queue makes on them; seen_enqueuing    *)
(* and seen_dequeuing are the records Queue would have.                    *)
(***************************************************************************)
EXTENDS Words

CONSTANTS Modulus,  \* 2^usize::BITS
          MaxSize   \* the largest InsertIntoBuffer::size() of a value

ASSUME PackedAssumption ==
    /\ Modulus \in Nat /\ Modulus >= 8 /\ Modulus % 4 = 0
    /\ MaxSize \in 1..(Modulus - 1)

VARIABLES enqueuing, dequeuing,           \* the words
          seen_enqueuing, seen_dequeuing  \* what they stand for

vars == <<enqueuing, dequeuing, seen_enqueuing, seen_dequeuing>>

MAX == Modulus - 1
CLOSED_FLAG == MAX \div 2 + 1
LOCKED == MAX

\* a << 1 drops the bit it shifts out.
ShiftLeft(a) == (2 * a) % Modulus

-----------------------------------------------------------------------------
(* EnqueuingCapacity.                                                      *)

\* check_overflow lets this capacity pass.
CheckOverflowByOne(capa) == capa <= MAX \div 2
CheckOverflow(capa) == capa < MAX \div 4

\* The assertion of new.
NewAssert(capa) == ShiftLeft(capa) < CLOSED_FLAG
New(index, capa) == index + ShiftLeft(capa)

BufferIndex(word) == word % 2
RemainingKeepingFlag(word) == word \div 2
RemainingCapacity(word) == (word % CLOSED_FLAG) \div 2
IsClosed(word) == word \div CLOSED_FLAG = 1

\* checked_sub of size << 1.
Reserves(word, size) == ShiftLeft(size) <= word
Reserve(word, size) == word - ShiftLeft(size)

\* close and reopen, and with_closed on a word without the flag.
Closed(word) == IF IsClosed(word) THEN word ELSE word + CLOSED_FLAG
Reopened(word) == word % CLOSED_FLAG
CarryingNothing(word, from) == word
Carrying(word, from) == IF IsClosed(from) THEN Closed(word) ELSE word

-----------------------------------------------------------------------------
(* DequeuingLength.                                                        *)

NewLength(index, length) == index + ShiftLeft(length)
BufferLen(word) == word \div 2
IsConflict(word) == word = LOCKED

-----------------------------------------------------------------------------
Capacity == {capa \in 0..MAX : CheckOverflow(capa)}

\* Queue::new and with_capacity.
Init ==
    \E capa \in Capacity :
        /\ NewAssert(capa)
        /\ enqueuing = New(0, capa)
        /\ dequeuing = NewLength(1, 0)
        /\ seen_enqueuing = EnqueuingCapacity(0, capa, FALSE)
        /\ seen_dequeuing = DequeuingLength(1, 0)

\* try_enqueue, up to its compare-and-swap.
TryEnqueue(size) ==
    /\ ~IsClosed(enqueuing)
    /\ enqueuing' = IF Reserves(enqueuing, size) THEN Reserve(enqueuing, size)
                                                 ELSE enqueuing
    /\ seen_enqueuing' = IF CanReserve(seen_enqueuing, size)
                         THEN TryReserve(seen_enqueuing, size)
                         ELSE seen_enqueuing
    /\ UNCHANGED <<dequeuing, seen_dequeuing>>

\* The swap of try_dequeue_internal, with the room left in the next buffer.
Swap(room) ==
    LET index == 1 - BufferIndex(enqueuing) IN
    /\ NewAssert(room)
    /\ enqueuing' = Carrying(New(index, room), enqueuing)
    /\ seen_enqueuing' =
           WithClosed(EnqueuingCapacity(1 - seen_enqueuing.index, room, FALSE),
                      seen_enqueuing)
    /\ UNCHANGED <<dequeuing, seen_dequeuing>>

Close ==
    /\ enqueuing' = Closed(enqueuing)
    /\ seen_enqueuing' = SetClosed(seen_enqueuing, TRUE)
    /\ UNCHANGED <<dequeuing, seen_dequeuing>>

Reopen ==
    /\ enqueuing' = Reopened(enqueuing)
    /\ seen_enqueuing' = SetClosed(seen_enqueuing, FALSE)
    /\ UNCHANGED <<dequeuing, seen_dequeuing>>

LockDequeuing ==
    /\ dequeuing' = LOCKED
    /\ seen_dequeuing' = DEQUEUING_LOCKED
    /\ UNCHANGED <<enqueuing, seen_enqueuing>>

\* The stores that unlock dequeuing, with the length still due.
StoreDequeuing(index, length) ==
    /\ IsConflict(dequeuing)
    /\ dequeuing' = NewLength(index, length)
    /\ seen_dequeuing' = DequeuingLength(index, length)
    /\ UNCHANGED <<enqueuing, seen_enqueuing>>

Next ==
    \/ \E size \in 1..MaxSize : TryEnqueue(size)
    \/ \E room \in Capacity : Swap(room)
    \/ Close \/ Reopen
    \/ LockDequeuing
    \/ \E index \in {0, 1}, length \in Capacity : StoreDequeuing(index, length)

Spec == Init /\ [][Next]_vars

-----------------------------------------------------------------------------
\* The words are the records, bit by bit: the index and the flag have a bit of
\* their own, and the room or the length between them never reaches the flag,
\* so that no reservation borrows from the bits around it (new, try_reserve,
\* close, reopen, with_closed, and the stores of the dequeuing word).
PackedInv ==
    /\ seen_enqueuing \in [index : {0, 1}, remaining : Nat, closed : BOOLEAN]
    /\ CheckOverflow(seen_enqueuing.remaining)
    /\ enqueuing = seen_enqueuing.index + 2 * seen_enqueuing.remaining
                    + IF seen_enqueuing.closed THEN CLOSED_FLAG ELSE 0
    /\ \/ dequeuing = LOCKED /\ seen_dequeuing = DEQUEUING_LOCKED
       \/ /\ seen_dequeuing \in [index : {0, 1}, length : Nat]
          /\ CheckOverflow(seen_dequeuing.length)
          /\ dequeuing = seen_dequeuing.index + 2 * seen_dequeuing.length

\* Through any sequence of reservations, swaps, closes and reopens the bits of
\* the enqueuing word are the index, room and closed flag Queue says: a
\* subtraction never borrows from the flag or the index.
EnqueuingDecodes ==
    seen_enqueuing = EnqueuingCapacity(BufferIndex(enqueuing),
                                       RemainingCapacity(enqueuing),
                                       IsClosed(enqueuing))

\* No length a buffer can have is taken for the lock, and the others decode.
DequeuingDecodes ==
    IF IsConflict(dequeuing)
    THEN seen_dequeuing = DEQUEUING_LOCKED
    ELSE seen_dequeuing = DequeuingLength(BufferIndex(dequeuing),
                                          BufferLen(dequeuing))
=============================================================================
