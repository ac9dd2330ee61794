--------------------------- MODULE WriteVectored ---------------------------
(***************************************************************************)
(* A WriteVectored buffer (src/src/write_vectored/vec.rs; array.rs is the  *)
(* same with a fixed capacity) and the VectoredSlice and VectoredFrame     *)
(* lent from it (src/src/write_vectored.rs), through the life a queue      *)
(* gives one of its buffers: filled, lent as a slice or drained, given     *)
(* back, released, resized while empty.                                    *)
(* The io-slice of the value in cell i is in slot i + 1, so that there is  *)
(* a slot before and a slot after any range for a header and a trailer.    *)
(* A frame is dropped before its slice is used again.                      *)
(***************************************************************************)
EXTENDS Integers, Sequences, FiniteSetsExt

CONSTANTS
    Blob,         \* the values enqueued
    SizeOf,       \* the number of bytes of each of them
    Uninit,       \* the content of a cell without value
    EmptySlice,   \* EMPTY_SLICE
    Header, Trailer,
    Capacities,   \* the capacities the buffer may be resized to
    MaxCapacity,
    Modulus,      \* 2^usize::BITS
    Bounded       \* may frame be given a range with bounds?

ASSUME WriteVectoredAssumption ==
    /\ SizeOf \in [Blob -> Nat] /\ Uninit \notin Blob
    /\ MaxCapacity \in Nat
    /\ Capacities \subseteq 1..MaxCapacity /\ Capacities # {}
    /\ Modulus \in Nat \ {0}
    /\ Bounded \in BOOLEAN

Cell == 0..(MaxCapacity - 1)
Slot == 0..(MaxCapacity + 1)
NoFrame == [start |-> 0, end |-> 0, range |-> <<>>, header |-> <<>>,
            trailer |-> <<>>, panicked |-> FALSE]

VARIABLES
    capacity,    \* owned.len()
    owned,       \* per cell, the value it owns
    slices,      \* per slot, the io-slice it holds
    total_size,  \* the counter of the buffer
    pc,          \* what the queue does with the buffer
    range,       \* the range of cells lent or due
    view_size,   \* VectoredSlice::total_size of the slice lent
    frame,       \* the frame taken from the slice
    discarded    \* history: has a slice been dropped with values in it?

vars == <<capacity, owned, slices, total_size, pc, range, view_size, frame,
          discarded>>

Filled == {i \in Cell : owned[i] # Uninit}
BytesOf(owner, cellset) == MapThenSumSet(LAMBDA i : SizeOf[owner[i]], cellset)
Bytes(cellset) == BytesOf(owned, cellset)

Init ==
    /\ capacity \in Capacities
    /\ owned = [i \in Cell |-> Uninit]
    /\ slices = [i \in Slot |-> EmptySlice]
    /\ total_size = 0
    /\ pc = "fill"
    /\ range = [start |-> 0, end |-> 0]
    /\ view_size = 0
    /\ frame = NoFrame
    /\ discarded = FALSE

-----------------------------------------------------------------------------
(* The buffer.                                                             *)

\* CellBuffer::insert, in a cell reserved by try_enqueue; concurrent ones may
\* end in any order.
InsertInWrongSlot(index, value) ==
    /\ pc = "fill"
    /\ index < capacity /\ owned[index] = Uninit
    /\ slices' = [slices EXCEPT ![index] = value]
    /\ owned' = [owned EXCEPT ![index] = value]
    /\ total_size' = (total_size + SizeOf[value]) % Modulus
    /\ UNCHANGED <<capacity, pc, range, view_size, frame, discarded>>
Insert(index, value) ==
    /\ pc = "fill"
    /\ index < capacity /\ owned[index] = Uninit
    /\ slices' = [slices EXCEPT ![index + 1] = value]
    /\ owned' = [owned EXCEPT ![index] = value]
    /\ total_size' = (total_size + SizeOf[value]) % Modulus
    /\ UNCHANGED <<capacity, pc, range, view_size, frame, discarded>>

\* Resize::resize, by try_dequeue_and_resize on an empty buffer.
Resize(capa) ==
    /\ pc = "fill" /\ Filled = {}
    /\ capa # capacity
    /\ capacity' = capa
    /\ owned' = [i \in Cell |-> Uninit]
    /\ slices' = [i \in Slot |-> EmptySlice]
    /\ UNCHANGED <<total_size, pc, range, view_size, frame, discarded>>

\* The values of a range of cells are moved out, the counter following.
Remove(from, cellset) ==
    /\ owned' = [i \in Cell |-> IF i \in cellset THEN Uninit ELSE owned[i]]
    /\ total_size' = (from - Bytes(cellset)) % Modulus

\* Buffer::slice: the io-slices of the range, and the counter.
Slice(lo, hi) ==
    /\ range' = [start |-> lo, end |-> hi]
    /\ view_size' = total_size

-----------------------------------------------------------------------------
(* What the queue and the holder of the handle do with it.                 *)

\* The buffer is swapped out and every reserved cell is acknowledged.
TakeSlice ==
    /\ pc = "fill"
    /\ \E n \in 1..capacity : Filled = 0..(n - 1) /\ Slice(0, n)
    /\ pc' = "slice"
    /\ UNCHANGED <<capacity, owned, slices, total_size, frame, discarded>>

\* A requeued range is lent again, or an iterator becomes a slice.
SliceAgain ==
    /\ pc \in {"due", "iter"}
    /\ Slice(range.start, range.end)
    /\ pc' = "slice"
    /\ UNCHANGED <<capacity, owned, slices, total_size, frame, discarded>>

IntoIter ==
    /\ pc = "slice" /\ frame = NoFrame
    /\ pc' = "iter"
    /\ UNCHANGED <<capacity, owned, slices, total_size, range, view_size,
                   frame, discarded>>

NextValueKeepingSize ==
    /\ pc = "iter" /\ range.start < range.end
    /\ owned' = [owned EXCEPT ![range.start] = Uninit]
    /\ range' = [range EXCEPT !.start = @ + 1]
    /\ UNCHANGED <<capacity, slices, total_size, pc, view_size, frame,
                   discarded>>
NextValue ==
    /\ pc = "iter" /\ range.start < range.end
    /\ Remove(total_size, {range.start})
    /\ range' = [range EXCEPT !.start = @ + 1]
    /\ UNCHANGED <<capacity, slices, pc, view_size, frame, discarded>>

\* requeue, of a slice or by dropping an iterator.
Requeue ==
    /\ pc \in {"slice", "iter"} /\ frame = NoFrame
    /\ range.start < range.end
    /\ pc' = "due"
    /\ UNCHANGED <<capacity, owned, slices, total_size, range, view_size,
                   frame, discarded>>

\* release: Buffer::clear of the range, which resets the counter first.
Release ==
    /\ pc \in {"slice", "iter"}
    /\ frame = NoFrame \/ frame.panicked
    /\ pc = "iter" => range.start = range.end
    /\ Remove(0, range.start..(range.end - 1))
    /\ pc' = "fill"
    /\ frame' = NoFrame
    /\ discarded' = (discarded \/ range.start < range.end)
    /\ UNCHANGED <<capacity, slices, range, view_size>>

-----------------------------------------------------------------------------
(* VectoredSlice::frame and the drop of a VectoredFrame.                   *)

Bound(kind, n) == [kind |-> kind, n |-> n]
Unbounded == Bound("Unbounded", 0)

\* The items of a slice of length items that a pair of bounds selects.
Selected(bounds, length) ==
    {i \in 0..(length - 1) :
        /\ CASE bounds[1].kind = "Included" -> bounds[1].n <= i
             [] bounds[1].kind = "Excluded" -> bounds[1].n < i
             [] OTHER -> TRUE
        /\ CASE bounds[2].kind = "Included" -> i <= bounds[2].n
             [] bounds[2].kind = "Excluded" -> i < bounds[2].n
             [] OTHER -> TRUE}

\* The first slot of a frame, room for a header included, counted from the
\* first slot of the slice.
FrameStart(bound) ==
    CASE bound.kind = "Included" -> bound.n
      [] bound.kind = "Excluded" -> bound.n + 1
      [] OTHER -> 0

\* The slot after the last one of a frame, room for a trailer included.
FrameEndOfItems(bound, length) ==
    CASE bound.kind = "Included" -> bound.n + 2
      [] bound.kind = "Excluded" -> bound.n + 1
      [] OTHER -> length + 1
FrameEnd(bound, length) ==
    CASE bound.kind = "Included" -> bound.n + 2
      [] bound.kind = "Excluded" -> bound.n + 1
      [] OTHER -> length + 2

\* The bounds a caller may give: the whole slice, or a range inside it.
FrameRanges(length) ==
    {<<Unbounded, Unbounded>>} \cup
    IF Bounded THEN {<<Bound("Included", lo), Bound("Excluded", hi)>> :
                        lo \in 0..length, hi \in 0..length} ELSE {}

\* frame replaces the slots of the header and the trailer and keeps what they
\* held.  An empty range of slots that ends before it starts panics, and the
\* unwinding drops the slice.
Frame(bounds, header, trailer) ==
    LET length == range.end - range.start
        lo == range.start + FrameStart(bounds[1])
        hi == range.start + FrameEnd(bounds[2], length)
        start == IF header THEN lo ELSE lo + 1
        end == IF trailer THEN hi ELSE hi - 1
        with_header == IF header THEN [slices EXCEPT ![lo] = Header]
                                 ELSE slices IN
    /\ pc = "slice" /\ frame = NoFrame
    /\ bounds[1].kind = "Included" => bounds[1].n <= bounds[2].n
    /\ slices' = IF trailer THEN [with_header EXCEPT ![hi - 1] = Trailer]
                            ELSE with_header
    /\ frame' = [start |-> start, end |-> end, range |-> bounds,
                 header |-> IF header THEN <<slices[lo]>> ELSE <<>>,
                 trailer |-> IF trailer THEN <<with_header[hi - 1]>> ELSE <<>>,
                 panicked |-> start > end]
    /\ UNCHANGED <<capacity, owned, total_size, pc, range, view_size,
                   discarded>>

DropFrame ==
    LET restored == IF frame.header # <<>>
                    THEN [slices EXCEPT ![frame.start] = frame.header[1]]
                    ELSE slices IN
    /\ frame # NoFrame /\ ~frame.panicked
    /\ slices' = IF frame.trailer # <<>>
                 THEN [restored EXCEPT ![frame.end - 1] = frame.trailer[1]]
                 ELSE restored
    /\ frame' = NoFrame
    /\ UNCHANGED <<capacity, owned, total_size, pc, range, view_size,
                   discarded>>

Next ==
    \/ \E index \in Cell, value \in Blob : Insert(index, value)
    \/ \E capa \in Capacities : Resize(capa)
    \/ TakeSlice \/ SliceAgain \/ IntoIter \/ NextValue \/ Requeue \/ Release
    \/ \E bounds \in FrameRanges(range.end - range.start),
          header \in BOOLEAN, trailer \in BOOLEAN :
             Frame(bounds, header, trailer)
    \/ DropFrame

Spec == Init /\ [][Next]_vars

-----------------------------------------------------------------------------
TypeOK ==
    /\ capacity \in Capacities
    /\ owned \in [Cell -> Blob \cup {Uninit}]
    /\ slices = [i \in Slot |-> slices[i]]
    /\ pc \in {"fill", "slice", "iter", "due"}
    /\ range \in [start : Nat, end : Nat]
    /\ pc # "fill" => range.start <= range.end /\ range.end <= capacity

\* Outside of the range lent or due there is no value.
RangeInv == pc # "fill" => Filled = range.start..(range.end - 1)

\* A value keeps its io-slice whatever is lent, and the slots next to the range
\* are free.
OwnersInv == RangeInv /\ \A i \in Filled : slices[i + 1] = owned[i]

\* A frame of the whole slice, in the slots around it.
FrameInv ==
    frame # NoFrame =>
        /\ pc = "slice" /\ ~frame.panicked
        /\ frame.range = <<Unbounded, Unbounded>>
        /\ frame.start = IF frame.header # <<>> THEN range.start ELSE range.start + 1
        /\ frame.end = IF frame.trailer # <<>> THEN range.end + 2 ELSE range.end + 1
        /\ frame.header # <<>> => slices[range.start] = Header
        /\ frame.trailer # <<>> => slices[range.end + 1] = Trailer

\* The life of a vectored buffer whose frames take the whole slice: the values
\* are exactly those of the range lent or due, each with its io-slice behind
\* it, and the header and the trailer of a frame only ever take slots whose
\* cells are empty (insert, next, frame and its drop, clear).
VectoredInv == TypeOK /\ OwnersInv /\ FrameInv

\* "slices ... live along their owner in the buffer, as they are inserted and
\* removed together": whatever frames, drains and requeues came before, the
\* io-slices lent are those of the values the cells of the range own.
SlicesFollowOwners ==
    pc = "slice" /\ frame = NoFrame =>
        \A i \in range.start..(range.end - 1) :
            owned[i] \in Blob /\ slices[i + 1] = owned[i]

\* "Returns the framed part of the vectored slice within the given range,
\* with an optional header and trailer": a frame is its header, the io-slices
\* of the values of its range, and its trailer, in order.
FrameIsExact ==
    frame # NoFrame =>
        LET selected == Selected(frame.range, range.end - range.start)
            first == IF selected = {} THEN 0
                     ELSE range.start + (CHOOSE i \in selected :
                                            \A j \in selected : i <= j)
            items == [i \in 1..Cardinality(selected) |-> owned[first + i - 1]]
            head == IF frame.header # <<>> THEN <<Header>> ELSE <<>>
            tail == IF frame.trailer # <<>> THEN <<Trailer>> ELSE <<>> IN
        /\ ~frame.panicked
        /\ [i \in 1..(frame.end - frame.start) |-> slices[frame.start + i - 1]]
               = head \o items \o tail

\* "Returns the total size of all the buffered io-slices".
TotalSizeIsExact ==
    pc = "slice" => view_size = Bytes(range.start..(range.end - 1)) % Modulus

\* It does as long as every value was taken out by an iterator: requeues,
\* resizes and partial drains leave the counter in step with the cells.
TotalSizeFollowsDrains == ~discarded => TotalSizeIsExact

\* Why it does: before a slice has been discarded the counter is, modulo the
\* width of the word, the bytes of all the values in the buffer, through every
\* order of insertions and drains, and a slice is lent with the counter of the
\* moment (insert, remove, clear, resize and slice of write_vectored/vec.rs).
SizeInv ==
    /\ TypeOK /\ RangeInv
    /\ ~discarded => total_size = Bytes(Filled) % Modulus
    /\ pc = "slice" => view_size = total_size
=============================================================================
