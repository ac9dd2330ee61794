------------------------------- MODULE Words -------------------------------
(***************************************************************************)
(* The two packed words of the queue, EnqueuingCapacity and                *)
(* DequeuingLength (src/src/queue.rs), as records.  PackedWords shows that *)
(* the bits the code computes with are these records.                      *)
(***************************************************************************)
EXTENDS Integers

\* A word of EnqueuingCapacity::new, with the closed flag it carries.
EnqueuingCapacity(index, remaining, closed) ==
    [index |-> index, remaining |-> remaining, closed |-> closed]

DequeuingLength(index, length) == [index |-> index, length |-> length]

\* usize::MAX, a word that encodes no length a buffer can have.
DEQUEUING_LOCKED == [index |-> 1, length |-> -1]

\* EnqueuingCapacity::try_reserve gives a word for this size.
CanReserveOffByOne(word, size) == size <= word.remaining + 1
CanReserve(word, size) == size <= word.remaining

TryReserveNothing(word, size) == word
TryReserve(word, size) == [word EXCEPT !.remaining = @ - size]

\* EnqueuingCapacity::with_closed, on a new word that has no closed flag.
WithClosedForgotten(word, enqueuing) == word
WithClosed(word, enqueuing) == [word EXCEPT !.closed = enqueuing.closed]

SetClosed(word, closed) == [word EXCEPT !.closed = closed]
=============================================================================
