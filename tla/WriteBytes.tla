----------------------------- MODULE WriteBytes -----------------------------
(***************************************************************************)
(* A WriteVecBuffer or WriteArrayBuffer (src/src/write/vec.rs, array.rs)   *)
(* and the BytesSlice lent from it (src/src/write.rs), through the life a  *)
(* queue gives one of its buffers.  The bytes are never cleared: what a    *)
(* slice shows must come from the writers of its own round although the    *)
(* trailer of a short slice lies where a longer one has its payload.       *)
(***************************************************************************)
EXTENDS Integers, Sequences, FiniteSets

CONSTANTS
    Writer,        \* the values enqueued
    SizeOf,        \* WriteBytesSlice::size of each of them
    HEADER_SIZE, TRAILER_SIZE,
    Capacities,    \* the capacities the buffer may be given
    MaxCapacity,
    MaxRounds      \* bound: how often the buffer is released

ASSUME WriteBytesAssumption ==
    /\ SizeOf \in [Writer -> Nat \ {0}]
    /\ {HEADER_SIZE, TRAILER_SIZE, MaxCapacity, MaxRounds} \subseteq Nat
    /\ Capacities \subseteq 1..MaxCapacity

VARIABLES
    bytes,      \* the boxed slice, or the array
    pc,         \* what the queue does with the buffer
    length,     \* the number of payload bytes reserved, then lent
    writing,    \* the values reserved and not yet written
    expected,   \* per payload byte, what was written there in this round
    framing,    \* the header and the trailer last written by the consumer
    round

vars == <<bytes, pc, length, writing, expected, framing, round>>

Byte(w, k) == [writer |-> w, at |-> k, round |-> round]
Zero == [writer |-> "zero", at |-> 0, round |-> 0]
NoFraming == [header |-> <<>>, trailer |-> <<>>]

\* The header, the payload and the trailer are contiguous
\* (ArrayWithHeaderAndTrailer).
FullCapacity(capa) == HEADER_SIZE + capa + TRAILER_SIZE
Zeroed(capa) == [i \in 1..FullCapacity(capa) |-> Zero]

\* Buffer::capacity (saturating_sub).
Capacity ==
    IF Len(bytes) > HEADER_SIZE + TRAILER_SIZE
    THEN Len(bytes) - (HEADER_SIZE + TRAILER_SIZE) ELSE 0

\* A vector starts empty, an array has its capacity from the start.
Init ==
    /\ bytes \in {<<>>} \cup {Zeroed(capa) : capa \in Capacities}
    /\ pc = "fill"
    /\ length = 0 /\ writing = {} /\ expected = <<>>
    /\ framing = NoFraming
    /\ round = 0

-----------------------------------------------------------------------------
\* Resize::resize, of an empty buffer.
Resize(capa) ==
    /\ pc = "fill" /\ length = 0
    /\ capa # Capacity
    /\ bytes' = Zeroed(capa)
    /\ UNCHANGED <<pc, length, writing, expected, framing, round>>

\* The reservation of the queue.
Reserve(w) ==
    /\ pc = "fill"
    /\ w \notin {v.writer : v \in writing}
    /\ length + SizeOf[w] <= Capacity
    /\ writing' = writing \cup {[writer |-> w, index |-> length]}
    /\ length' = length + SizeOf[w]
    /\ expected' = expected \o [k \in 1..SizeOf[w] |-> Byte(w, k)]
    /\ UNCHANGED <<bytes, pc, framing, round>>

\* Byte i of the buffer, counted from 0 as in the code.
Write(from, content) ==
    [i \in 1..Len(bytes) |->
        IF i - 1 \in from..(from + Len(content) - 1)
        THEN content[i - from] ELSE bytes[i]]

\* InsertIntoBuffer::insert_into, of writers in any order.
InsertWithoutHeader(v) ==
    /\ v \in writing
    /\ bytes' = Write(v.index,
                      [k \in 1..SizeOf[v.writer] |-> Byte(v.writer, k)])
    /\ writing' = writing \ {v}
    /\ UNCHANGED <<pc, length, expected, framing, round>>
Insert(v) ==
    /\ v \in writing
    /\ bytes' = Write(HEADER_SIZE + v.index,
                      [k \in 1..SizeOf[v.writer] |-> Byte(v.writer, k)])
    /\ writing' = writing \ {v}
    /\ UNCHANGED <<pc, length, expected, framing, round>>

\* Buffer::slice: the bytes of BytesSlice; the buffer is never drained, so
\* that its range starts at 0.
Slice == SubSeq(bytes, 1, HEADER_SIZE + length + TRAILER_SIZE)

TakeSlice ==
    /\ pc \in {"due", "fill"}
    /\ length > 0 /\ writing = {}
    /\ pc' = "slice"
    /\ UNCHANGED <<bytes, length, writing, expected, framing, round>>

-----------------------------------------------------------------------------
(* BytesSlice.                                                             *)

\* deref: the unframed part.
Deref == SubSeq(Slice, HEADER_SIZE + 1, Len(Slice) - TRAILER_SIZE)

\* header.
Header(mark) ==
    LET content == [k \in 1..HEADER_SIZE |-> Byte(mark, k)] IN
    /\ pc = "slice"
    /\ bytes' = Write(0, content)
    /\ framing' = [framing EXCEPT !.header = content]
    /\ UNCHANGED <<pc, length, writing, expected, round>>

\* trailer.
TrailerOfBuffer(mark) ==
    LET content == [k \in 1..TRAILER_SIZE |-> Byte(mark, k)] IN
    /\ pc = "slice"
    /\ bytes' = Write(Len(bytes) - TRAILER_SIZE, content)
    /\ framing' = [framing EXCEPT !.trailer = content]
    /\ UNCHANGED <<pc, length, writing, expected, round>>
Trailer(mark) ==
    LET content == [k \in 1..TRAILER_SIZE |-> Byte(mark, k)] IN
    /\ pc = "slice"
    /\ bytes' = Write(Len(Slice) - TRAILER_SIZE, content)
    /\ framing' = [framing EXCEPT !.trailer = content]
    /\ UNCHANGED <<pc, length, writing, expected, round>>

\* deref_mut: the consumer overwrites a byte of the payload.
DerefMut(mark, k) ==
    /\ pc = "slice" /\ k \in 1..length
    /\ bytes' = Write(HEADER_SIZE + k - 1, <<Byte(mark, k)>>)
    /\ expected' = [expected EXCEPT ![k] = Byte(mark, k)]
    /\ UNCHANGED <<pc, length, writing, framing, round>>

Requeue ==
    /\ pc = "slice"
    /\ pc' = "due"
    /\ UNCHANGED <<bytes, length, writing, expected, framing, round>>

\* release: Buffer::clear leaves the bytes alone.
Release ==
    /\ pc = "slice" /\ round < MaxRounds
    /\ pc' = "fill"
    /\ length' = 0 /\ expected' = <<>> /\ framing' = NoFraming
    /\ round' = round + 1
    /\ UNCHANGED <<bytes, writing>>

Next ==
    \/ \E capa \in Capacities : Resize(capa)
    \/ \E w \in Writer : Reserve(w)
    \/ \E v \in writing : Insert(v)
    \/ TakeSlice \/ Requeue \/ Release
    \/ Header("header") \/ Trailer("trailer")
    \/ \E k \in 1..length : DerefMut("consumer", k)

Spec == Init /\ [][Next]_vars

-----------------------------------------------------------------------------
ByteType == [writer : Writer \cup {"zero", "header", "trailer", "consumer"},
             at : Nat, round : Nat]

\* The payload bytes that v has yet to write.
Unwritten(v) == (v.index + 1)..(v.index + SizeOf[v.writer])

TypeOK ==
    /\ bytes \in Seq(ByteType) /\ expected \in Seq(ByteType)
    /\ pc \in {"fill", "slice", "due"} /\ round \in Nat
    /\ length \in 0..Capacity /\ Len(expected) = length
    /\ pc # "fill" => length > 0 /\ writing = {}
    /\ writing \subseteq [writer : Writer, index : Nat]
    /\ framing \in [header : Seq(ByteType), trailer : Seq(ByteType)]
    /\ Len(framing.header) \in {0, HEADER_SIZE}
    /\ Len(framing.trailer) \in {0, TRAILER_SIZE}
    /\ pc = "fill" => framing = NoFraming

\* The ranges reserved are disjoint, and expected tells what goes there.
WritersInv ==
    /\ \A v \in writing :
          /\ v.index + SizeOf[v.writer] <= length
          /\ \A k \in 1..SizeOf[v.writer] :
                expected[v.index + k] = Byte(v.writer, k)
    /\ \A u, v \in writing : u # v => Unwritten(u) \cap Unwritten(v) = {}

\* A payload byte that no writer owes is the one expected.
PayloadInv ==
    \A k \in 1..length :
        \/ \E v \in writing : k \in Unwritten(v)
        \/ bytes[HEADER_SIZE + k] = expected[k]

FramingInv ==
    /\ \A k \in 1..Len(framing.header) : bytes[k] = framing.header[k]
    /\ \A k \in 1..Len(framing.trailer) :
          bytes[HEADER_SIZE + length + k] = framing.trailer[k]

\* The life of a buffer: the ranges reserved are disjoint and inside the
\* capacity, a payload byte no writer owes is the one expected, and the header
\* and the trailer written since the slice was first lent are in place around
\* the payload, requeued or not (insert_into, slice, header, trailer, clear).
BytesInv == TypeOK /\ WritersInv /\ PayloadInv /\ FramingInv

\* The unframed part of the slice lent is what the writers of this round wrote
\* and the consumer overwrote, in the order of the reservations, whatever
\* headers, trailers and longer payloads earlier rounds left in the buffer
\* (insert_into, slice, deref: clear leaves everything behind).
PayloadIsExact == pc = "slice" => Deref = expected

\* "Returns the complete frame slice, with header and trailer": a frame is the
\* header last written, the payload, and the trailer last written, also after
\* the slice was requeued and lent again.
FrameIsExact ==
    pc = "slice" /\ Len(framing.header) = HEADER_SIZE
                 /\ Len(framing.trailer) = TRAILER_SIZE =>
        Slice = framing.header \o expected \o framing.trailer
=============================================================================
