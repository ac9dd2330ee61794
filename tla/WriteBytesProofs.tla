-------------------------- MODULE WriteBytesProofs --------------------------
(***************************************************************************)
(* BytesInv is an inductive invariant of WriteBytes, whatever the writers, *)
(* the sizes of the header and of the trailer, the capacities and the      *)
(* number of rounds; the exactness of the payload and of the frame follow. *)
(***************************************************************************)
EXTENDS WriteBytes, TLAPS

-----------------------------------------------------------------------------
(* Sequences: when a frame is its header, its items and its trailer.       *)

\* s is a sequence of n elements of S.
IsSeq(s, S, n) == s \in Seq(S) /\ n \in Nat /\ Len(s) = n

\* s holds the n elements of a after its first off ones.
Holds(s, off, a, n) == \A k \in 1..n : s[off + k] = a[k]

\* r holds the m elements of a, and then the n elements of b.
Joins(r, a, m, b, n) ==
    \A i \in 1..(m + n) : r[i] = IF i <= m THEN a[i] ELSE b[i - m]

\* What a concatenation holds.
LEMMA ConcatIs ==
    ASSUME NEW S, NEW a, NEW b, NEW m, NEW n, IsSeq(a, S, m), IsSeq(b, S, n)
    PROVE  IsSeq(a \o b, S, m + n) /\ Joins(a \o b, a, m, b, n)
<1>1. a \o b \in Seq(S) /\ Len(a \o b) = m + n /\ m + n \in Nat
  BY DEF IsSeq
<1>2. \A i \in 1..(m + n) : (a \o b)[i] = IF i <= m THEN a[i] ELSE b[i - m]
  BY DEF IsSeq
<1> QED
  BY Zenon, <1>1, <1>2 DEF IsSeq, Joins

\* A sequence made of three parts is their concatenation.
LEMMA ThreeParts ==
    ASSUME NEW S, NEW a, NEW b, NEW c, NEW s, NEW m, NEW n, NEW p,
           IsSeq(a, S, m), IsSeq(b, S, n), IsSeq(c, S, p),
           IsSeq(s, S, (m + n) + p),
           Holds(s, 0, a, m), Holds(s, m, b, n), Holds(s, m + n, c, p)
    PROVE  s = a \o b \o c
<1> DEFINE ab == a \o b
           r == ab \o c
           all == 1..((m + n) + p)
<1>1. \A v \in Seq(S) : v = [i \in 1..Len(v) |-> v[i]]
  OBVIOUS
<1>2. /\ r \in Seq(S) /\ Len(r) = (m + n) + p
      /\ \A i \in all : r[i] = IF i <= m THEN a[i]
                               ELSE IF i <= m + n THEN b[i - m]
                               ELSE c[i - (m + n)]
  <2>1. IsSeq(ab, S, m + n) /\ Joins(ab, a, m, b, n)
    BY Zenon, ConcatIs
  <2> HIDE DEF ab
  <2>2. IsSeq(r, S, (m + n) + p) /\ Joins(r, ab, m + n, c, p)
    BY Zenon, <2>1, ConcatIs
  <2> HIDE DEF r
  <2> QED
    BY <2>1, <2>2 DEF IsSeq, Joins
<1>3. m \in Nat /\ n \in Nat /\ p \in Nat
  BY Zenon DEF IsSeq
<1> HIDE DEF ab, r
<1>4. ASSUME NEW i \in all PROVE s[i] = r[i]
  <2>1. CASE i <= m
    <3>1. i \in 1..m /\ 0 + i = i
      BY <1>3, <2>1
    <3>2. s[0 + i] = a[i]
      BY Zenon, <3>1 DEF Holds
    <3> QED
      BY Zenon, <1>2, <2>1, <3>1, <3>2
  <2>2. CASE ~(i <= m) /\ i <= m + n
    <3>1. i - m \in 1..n /\ m + (i - m) = i
      BY <1>3, <2>2
    <3>2. s[m + (i - m)] = b[i - m]
      BY Zenon, <3>1 DEF Holds
    <3> QED
      BY Zenon, <1>2, <2>2, <3>1, <3>2
  <2>3. CASE ~(i <= m) /\ ~(i <= m + n)
    <3>1. i - (m + n) \in 1..p /\ (m + n) + (i - (m + n)) = i
      BY <1>3, <2>3
    <3>2. s[(m + n) + (i - (m + n))] = c[i - (m + n)]
      BY Zenon, <3>1 DEF Holds
    <3> QED
      BY Zenon, <1>2, <2>3, <3>1, <3>2
  <2> QED
    BY Zenon, <2>1, <2>2, <2>3
<1>5. [i \in all |-> s[i]] = [i \in all |-> r[i]]
  BY Zenon, <1>4
<1>6. s = [i \in all |-> s[i]] /\ r = [i \in all |-> r[i]]
  BY Zenon, <1>1, <1>2 DEF IsSeq
<1> QED
  BY Zenon, <1>5, <1>6 DEF r, ab

-----------------------------------------------------------------------------
(* The buffer.                                                             *)

\* The constants, as the proofs use them.
LEMMA Sizes ==
    /\ HEADER_SIZE \in Nat /\ TRAILER_SIZE \in Nat /\ MaxCapacity \in Nat
    /\ Capacities \subseteq Nat
    /\ \A w \in Writer : SizeOf[w] \in Nat /\ SizeOf[w] > 0
  BY WriteBytesAssumption DEF WriteBytesAssumption

\* A payload that is not empty lies inside the buffer, with its header and its
\* trailer.
LEMMA Room ==
    ASSUME BytesInv
    PROVE  /\ Len(bytes) \in Nat /\ length \in Nat /\ Capacity \in Nat
           /\ length > 0 => HEADER_SIZE + length + TRAILER_SIZE <= Len(bytes)
           /\ Capacity > 0 => Len(bytes) = HEADER_SIZE + Capacity + TRAILER_SIZE
  BY Sizes DEF BytesInv, TypeOK, Capacity

\* What a write leaves in the buffer, byte by byte.
LEMMA Written ==
    ASSUME BytesInv, NEW from \in Nat, NEW content \in Seq(ByteType),
           NEW n, n = Len(content), bytes' = Write(from, content)
    PROVE  /\ bytes' \in Seq(ByteType) /\ Len(bytes') = Len(bytes)
           /\ \A i \in 1..Len(bytes) :
                 bytes'[i] = IF from < i /\ i <= from + n
                             THEN content[i - from] ELSE bytes[i]
<1>1. /\ bytes \in Seq(ByteType) /\ Len(bytes) \in Nat /\ n \in Nat
  BY DEF BytesInv, TypeOK
<1>2. \A i \in 1..Len(bytes) :
          i - 1 \in from..(from + n - 1) <=>
              from < i /\ i <= from + n
  BY <1>1
<1>3. bytes' = [i \in 1..Len(bytes) |->
                   IF from < i /\ i <= from + n
                   THEN content[i - from] ELSE bytes[i]]
  BY Zenon, <1>2 DEF Write
<1>4. \A i \in 1..Len(bytes) :
          (IF from < i /\ i <= from + n
           THEN content[i - from] ELSE bytes[i]) \in ByteType
  <2>1. SUFFICES ASSUME NEW i \in 1..Len(bytes)
                 PROVE  (IF from < i /\ i <= from + n
                         THEN content[i - from] ELSE bytes[i]) \in ByteType
    BY Zenon
  <2>2. CASE from < i /\ i <= from + n
    <3>1. i - from \in 1..n
      BY <1>1, <2>2
    <3> QED
      BY <2>2, <3>1
  <2>3. CASE ~(from < i /\ i <= from + n)
    BY <1>1, <2>3
  <2> QED
    BY Zenon, <2>2, <2>3
<1> QED
  BY <1>1, <1>3, <1>4

\* The bytes a writer or the consumer writes.
LEMMA ByteIs ==
    ASSUME BytesInv,
           NEW w \in Writer \cup {"zero", "header", "trailer", "consumer"},
           NEW n \in Nat
    PROVE  /\ \A k \in Nat : Byte(w, k) \in ByteType
           /\ [k \in 1..n |-> Byte(w, k)] \in Seq(ByteType)
           /\ Len([k \in 1..n |-> Byte(w, k)]) = n
<1>1. \A k \in Nat : Byte(w, k) \in ByteType
  BY Zenon DEF Byte, ByteType, BytesInv, TypeOK
<1>2. \A k \in 1..n : Byte(w, k) \in ByteType
  BY <1>1
<1> QED
  BY <1>1, <1>2

\* A new allocation.
LEMMA ZeroedIs == \A capa \in Capacities : Zeroed(capa) \in Seq(ByteType)
<1>1. \A capa \in Capacities : FullCapacity(capa) \in Nat
  BY Sizes DEF FullCapacity
<1>2. Zero \in ByteType
  BY Zenon DEF Zero, ByteType
<1> QED
  BY <1>1, <1>2 DEF Zeroed

-----------------------------------------------------------------------------
(* The invariant is inductive.                                             *)

\* A new buffer, a vector without bytes or an array of zeroes.
LEMMA InitInv == Init => BytesInv
<1> SUFFICES ASSUME Init PROVE BytesInv
  BY Zenon
<1>1. /\ pc = "fill" /\ length = 0 /\ writing = {} /\ expected = <<>>
      /\ framing = NoFraming /\ round = 0
  BY Zenon DEF Init
<1>2. bytes \in Seq(ByteType)
  <2>1. CASE bytes = <<>>
    BY <2>1
  <2>2. CASE \E capa \in Capacities : bytes = Zeroed(capa)
    BY Zenon, <2>2, ZeroedIs
  <2> QED
    BY Zenon, <2>1, <2>2 DEF Init
<1>3. Capacity \in Nat
  BY <1>2, Sizes DEF Capacity
<1> QED
  BY <1>1, <1>2, <1>3
     DEF BytesInv, TypeOK, WritersInv, PayloadInv, FramingInv, NoFraming

\* resize replaces the bytes of a buffer in which nothing is reserved.
LEMMA ResizeInv ==
    ASSUME BytesInv, NEW capa \in Capacities, Resize(capa)
    PROVE  BytesInv'
<1>1. /\ pc = "fill" /\ length = 0 /\ bytes' = Zeroed(capa)
      /\ UNCHANGED <<pc, length, writing, expected, framing, round>>
  BY Zenon DEF Resize
<1>2. bytes' \in Seq(ByteType)
  BY Zenon, <1>1, ZeroedIs
<1>3. Capacity' \in Nat
  BY <1>2, Sizes DEF Capacity
<1>4. TypeOK'
  BY <1>1, <1>2, <1>3 DEF BytesInv, TypeOK
<1>5. WritersInv'
  BY Zenon, <1>1 DEF BytesInv, WritersInv, Byte, Unwritten
<1>6. framing' = NoFraming /\ length' = 0
  BY Zenon, <1>1 DEF BytesInv, TypeOK
<1> QED
  BY <1>4, <1>5, <1>6 DEF BytesInv, PayloadInv, FramingInv, NoFraming

\* A reservation appends to what is expected, after all that is reserved.
LEMMA ReserveInv ==
    ASSUME BytesInv, NEW w \in Writer, Reserve(w)
    PROVE  BytesInv'
<1> DEFINE n == SizeOf[w]
           content == [k \in 1..n |-> Byte(w, k)]
           new == [writer |-> w, index |-> length]
<1>1. /\ pc = "fill" /\ length + n <= Capacity /\ length' = length + n
      /\ UNCHANGED <<bytes, pc, framing, round>>
  BY Zenon DEF Reserve
<1>2. writing' = writing \cup {new}
  BY Zenon DEF Reserve
<1>3. expected' = expected \o content
  BY Zenon DEF Reserve
<1>4. /\ n \in Nat /\ n > 0 /\ length \in Nat /\ Capacity \in Nat
      /\ framing = NoFraming
  BY Zenon, <1>1, Sizes, Room DEF BytesInv, TypeOK
<1>5. expected \in Seq(ByteType) /\ Len(expected) = length
  BY Zenon DEF BytesInv, TypeOK
<1>6. content \in Seq(ByteType) /\ Len(content) = n
      /\ \A k \in 1..n : content[k] = Byte(w, k)
  BY Zenon, <1>4, ByteIs
<1> HIDE DEF n, content
<1>7. /\ expected' \in Seq(ByteType) /\ Len(expected') = length + n
      /\ \A k \in 1..length : expected'[k] = expected[k]
      /\ \A k \in 1..n : expected'[length + k] = Byte(w, k)
  <2>1. /\ expected \o content \in Seq(ByteType)
        /\ Len(expected \o content) = Len(expected) + Len(content)
        /\ \A k \in 1..Len(expected) : (expected \o content)[k] = expected[k]
        /\ \A k \in 1..Len(content) :
              (expected \o content)[Len(expected) + k] = content[k]
    <3>1. expected \in Seq(ByteType) /\ content \in Seq(ByteType)
      BY Zenon, <1>5, <1>6
    <3> QED
      BY <3>1
  <2> QED
    BY Zenon, <1>3, <1>5, <1>6, <2>1
<1>8. TypeOK'
  <2>1. Capacity' = Capacity
    BY Zenon, <1>1 DEF Capacity
  <2>2. writing' \subseteq [writer : Writer, index : Nat]
    BY <1>2, <1>4 DEF BytesInv, TypeOK
  <2>3. length' \in 0..Capacity'
    BY <1>1, <1>4, <2>1
  <2> QED
    BY Zenon, <1>1, <1>4, <1>7, <2>2, <2>3 DEF BytesInv, TypeOK
<1>9. \A v \in writing : /\ v.index \in Nat /\ SizeOf[v.writer] \in Nat
                         /\ v.index + SizeOf[v.writer] <= length
  BY Zenon, Sizes DEF BytesInv, TypeOK, WritersInv
<1>10. Unwritten(new) = (length + 1)..(length + n) /\ new.index = length
       /\ new.writer = w /\ SizeOf[new.writer] = n
  BY Zenon DEF Unwritten, n
<1> HIDE DEF new
<1>11. WritersInv'
  <2>1. ASSUME NEW v \in writing'
        PROVE  /\ v.index + SizeOf[v.writer] <= length'
               /\ \A k \in 1..SizeOf[v.writer] :
                     expected'[v.index + k] = Byte(v.writer, k)'
    <3>0. \A k : Byte(v.writer, k)' = Byte(v.writer, k)
      BY Zenon, <1>1 DEF Byte
    <3>1. CASE v = new
      BY <1>1, <1>4, <1>7, <1>10, <3>0, <3>1
    <3>2. CASE v \in writing
      <4>1. \A k \in 1..SizeOf[v.writer] : expected[v.index + k] = Byte(v.writer, k)
        BY Zenon, <3>2 DEF BytesInv, WritersInv
      <4>2. \A k \in 1..SizeOf[v.writer] : v.index + k \in 1..length
        BY <1>4, <1>9, <3>2
      <4> QED
        BY <1>1, <1>4, <1>7, <1>9, <3>0, <3>2, <4>1, <4>2
    <3> QED
      BY Zenon, <1>2, <2>1, <3>1, <3>2
  <2>2. ASSUME NEW u \in writing', NEW v \in writing', u # v
        PROVE  Unwritten(u) \cap Unwritten(v) = {}
    <3>1. \A x \in writing : Unwritten(x) \cap Unwritten(new) = {}
      BY <1>4, <1>9, <1>10 DEF Unwritten
    <3>2. \A x, y \in writing : x # y => Unwritten(x) \cap Unwritten(y) = {}
      BY Zenon DEF BytesInv, WritersInv
    <3> QED
      BY Zenon, <1>2, <2>2, <3>1, <3>2
  <2> QED
    BY Zenon, <2>1, <2>2 DEF WritersInv, Unwritten
<1>12. PayloadInv'
  <2>1. SUFFICES ASSUME NEW k \in 1..length'
                 PROVE  \/ \E v \in writing' : k \in Unwritten(v)
                        \/ bytes'[HEADER_SIZE + k] = expected'[k]
    BY Zenon DEF PayloadInv, Unwritten
  <2>2. k \in 1..length \/ k \in (length + 1)..(length + n)
    BY <1>1, <1>4
  <2>3. CASE k \in 1..length
    BY Zenon, <1>1, <1>2, <1>7, <2>3 DEF BytesInv, PayloadInv
  <2>4. CASE k \in (length + 1)..(length + n)
    BY Zenon, <1>2, <1>10, <2>4
  <2> QED
    BY Zenon, <2>2, <2>3, <2>4
<1>13. FramingInv'
  BY <1>1, <1>4 DEF FramingInv, NoFraming
<1> QED
  BY Zenon, <1>8, <1>11, <1>12, <1>13 DEF BytesInv

\* insert_into writes what is expected in the range of its value, and nothing
\* else, whatever the order of the writers.
LEMMA InsertInv ==
    ASSUME BytesInv, NEW v \in writing, Insert(v)
    PROVE  BytesInv'
<1> DEFINE n == SizeOf[v.writer]
           content == [k \in 1..n |-> Byte(v.writer, k)]
           from == HEADER_SIZE + v.index
<1>1. /\ bytes' = Write(from, content)
      /\ UNCHANGED <<pc, length, expected, framing, round>>
  BY Zenon DEF Insert
<1>2. writing' = writing \ {v}
  BY Zenon DEF Insert
<1>3. v \in [writer : Writer, index : Nat] /\ pc = "fill" /\ framing = NoFraming
  BY Zenon DEF BytesInv, TypeOK
<1>4. /\ v.writer \in Writer /\ v.index \in Nat /\ n \in Nat /\ n > 0
      /\ from \in Nat /\ HEADER_SIZE \in Nat /\ TRAILER_SIZE \in Nat
  BY <1>3, Sizes
<1>5. v.index + n <= length
  BY Zenon DEF BytesInv, WritersInv
<1>6. content \in Seq(ByteType) /\ Len(content) = n
      /\ \A k \in 1..n : content[k] = Byte(v.writer, k)
  BY Zenon, <1>4, ByteIs
<1>7. /\ length \in Nat /\ Len(bytes) \in Nat
      /\ HEADER_SIZE + length + TRAILER_SIZE <= Len(bytes)
  BY <1>4, <1>5, Room
<1> HIDE DEF n, content, from
<1>8. /\ bytes' \in Seq(ByteType) /\ Len(bytes') = Len(bytes)
      /\ \A i \in 1..Len(bytes) :
            bytes'[i] = IF from < i /\ i <= from + n
                        THEN content[i - from] ELSE bytes[i]
  <2>1. from \in Nat /\ content \in Seq(ByteType) /\ n = Len(content)
        /\ bytes' = Write(from, content)
    BY Zenon, <1>1, <1>4, <1>6
  <2> QED
    BY <2>1, Written
<1>9. TypeOK'
  <2>1. Capacity' = Capacity
    BY Zenon, <1>8 DEF Capacity
  <2>2. writing' \subseteq [writer : Writer, index : Nat]
    BY Zenon, <1>2 DEF BytesInv, TypeOK
  <2> QED
    BY Zenon, <1>1, <1>3, <1>8, <2>1, <2>2 DEF BytesInv, TypeOK
<1>10. WritersInv'
  <2>1. \A w, k : Byte(w, k)' = Byte(w, k)
    BY Zenon, <1>1 DEF Byte
  <2> QED
    BY Zenon, <1>1, <1>2, <2>1 DEF BytesInv, WritersInv, Unwritten
<1>11. PayloadInv'
  <2>1. SUFFICES ASSUME NEW k \in 1..length
                 PROVE  \/ \E u \in writing' : k \in Unwritten(u)
                        \/ bytes'[HEADER_SIZE + k] = expected[k]
    BY Zenon, <1>1 DEF PayloadInv, Unwritten
  <2> DEFINE i == HEADER_SIZE + k
  <2>2. /\ i \in 1..Len(bytes)
        /\ bytes'[i] = IF from < i /\ i <= from + n
                       THEN content[i - from] ELSE bytes[i]
    <3>1. i \in 1..Len(bytes)
      BY <1>4, <1>7
    <3> HIDE DEF i
    <3> QED
      BY Zenon, <1>8, <3>1
  <2>a. \/ /\ k \in Unwritten(v)
           /\ from < i /\ i <= from + n /\ i - from = k - v.index
        \/ k \notin Unwritten(v) /\ ~(from < i /\ i <= from + n)
    <3> DEFINE x == v.index
    <3>1. /\ from = HEADER_SIZE + x /\ x \in Nat /\ n \in Nat
          /\ Unwritten(v) = (x + 1)..(x + n)
      BY Zenon, <1>4 DEF from, Unwritten, n
    <3>2. k \in Nat /\ HEADER_SIZE \in Nat
      BY <1>4, <1>7
    <3> HIDE DEF x
    <3>3. \/ /\ k \in (x + 1)..(x + n)
             /\ from < i /\ i <= from + n /\ i - from = k - x
          \/ k \notin (x + 1)..(x + n) /\ ~(from < i /\ i <= from + n)
      BY <3>1, <3>2
    <3> QED
      BY Zenon, <3>1, <3>3 DEF x
  <2>3. CASE k \in Unwritten(v)
    <3>1. k - v.index \in 1..n /\ k = v.index + (k - v.index)
      BY <1>4, <1>7, <2>3 DEF Unwritten, n
    <3>2. expected[v.index + (k - v.index)] = Byte(v.writer, k - v.index)
      BY Zenon, <3>1 DEF BytesInv, WritersInv, n
    <3>3. bytes'[HEADER_SIZE + k] = content[k - v.index]
      BY Zenon, <2>2, <2>3, <2>a
    <3> QED
      BY Zenon, <1>6, <3>1, <3>2, <3>3
  <2>4. CASE k \notin Unwritten(v)
    <3>2. bytes'[HEADER_SIZE + k] = bytes[HEADER_SIZE + k]
      BY Zenon, <2>2, <2>4, <2>a
    <3>3. \/ \E u \in writing : k \in Unwritten(u)
          \/ bytes[HEADER_SIZE + k] = expected[k]
      BY Zenon DEF BytesInv, PayloadInv
    <3> QED
      BY Zenon, <1>2, <2>4, <3>2, <3>3
  <2> QED
    BY Zenon, <2>3, <2>4
<1>12. FramingInv'
  BY <1>1, <1>3 DEF FramingInv, NoFraming
<1> QED
  BY Zenon, <1>9, <1>10, <1>11, <1>12 DEF BytesInv

\* A slice that is lent or requeued keeps the bytes.
LEMMA LendInv ==
    ASSUME BytesInv, TakeSlice \/ Requeue
    PROVE  BytesInv'
<1>1. /\ pc' \in {"slice", "due"} /\ length > 0 /\ writing = {}
      /\ UNCHANGED <<bytes, length, writing, expected, framing, round>>
  BY Zenon DEF TakeSlice, Requeue, BytesInv, TypeOK
<1>2. TypeOK'
  BY Zenon, <1>1 DEF BytesInv, TypeOK, Capacity
<1> QED
  BY Zenon, <1>1, <1>2
     DEF BytesInv, WritersInv, PayloadInv, FramingInv, Byte, Unwritten

\* clear forgets the payload and the frame.
LEMMA ReleaseInv ==
    ASSUME BytesInv, Release
    PROVE  BytesInv'
<1>1. /\ pc' = "fill" /\ length' = 0 /\ expected' = <<>> /\ framing' = NoFraming
      /\ round' = round + 1 /\ writing' = {} /\ UNCHANGED bytes
  BY Zenon DEF Release, BytesInv, TypeOK
<1>2. Capacity' = Capacity /\ Capacity \in Nat
  BY Zenon, <1>1, Room DEF Capacity
<1>3. framing' \in [header : Seq(ByteType), trailer : Seq(ByteType)]
      /\ Len(framing'.header) = 0 /\ Len(framing'.trailer) = 0
  BY <1>1 DEF NoFraming
<1>4. TypeOK'
  BY <1>1, <1>2, <1>3 DEF BytesInv, TypeOK
<1> QED
  BY <1>1, <1>3, <1>4 DEF BytesInv, WritersInv, PayloadInv, FramingInv

\* While a slice is lent, all of its payload is there.
LEMMA Lent ==
    ASSUME BytesInv, pc = "slice"
    PROVE  /\ HEADER_SIZE \in Nat /\ TRAILER_SIZE \in Nat
           /\ length \in Nat /\ length > 0 /\ writing = {} /\ Len(bytes) \in Nat
           /\ HEADER_SIZE + length + TRAILER_SIZE <= Len(bytes)
           /\ bytes \in Seq(ByteType)
           /\ Len(Slice) = HEADER_SIZE + length + TRAILER_SIZE
           /\ \A i \in 1..Len(Slice) : Slice[i] = bytes[i]
           /\ expected \in Seq(ByteType) /\ Len(expected) = length
           /\ \A k \in 1..length : bytes[HEADER_SIZE + k] = expected[k]
<1>1. /\ HEADER_SIZE \in Nat /\ TRAILER_SIZE \in Nat
      /\ length \in Nat /\ length > 0 /\ writing = {} /\ Len(bytes) \in Nat
      /\ HEADER_SIZE + length + TRAILER_SIZE <= Len(bytes)
      /\ bytes \in Seq(ByteType)
      /\ expected \in Seq(ByteType) /\ Len(expected) = length
  BY Zenon, Sizes, Room DEF BytesInv, TypeOK
<1>2. \A k \in 1..length : bytes[HEADER_SIZE + k] = expected[k]
  BY Zenon, <1>1 DEF BytesInv, PayloadInv
<1>3. /\ Len(Slice) = HEADER_SIZE + length + TRAILER_SIZE
      /\ \A i \in 1..Len(Slice) : Slice[i] = bytes[i]
  BY <1>1 DEF Slice
<1> QED
  BY Zenon, <1>1, <1>2, <1>3

\* A write of the consumer: TypeOK, and nothing to tell of writers.
LEMMA ConsumerWrites ==
    ASSUME BytesInv, pc = "slice", UNCHANGED <<pc, length, writing, round>>,
           NEW from \in Nat, NEW content \in Seq(ByteType),
           bytes' = Write(from, content),
           expected' \in Seq(ByteType), Len(expected') = length,
           framing' \in [header : Seq(ByteType), trailer : Seq(ByteType)],
           Len(framing'.header) \in {0, HEADER_SIZE},
           Len(framing'.trailer) \in {0, TRAILER_SIZE}
    PROVE  TypeOK' /\ WritersInv'
<1>1. bytes' \in Seq(ByteType) /\ Len(bytes') = Len(bytes)
  <2>1. \A n : n = Len(content) => bytes' \in Seq(ByteType) /\ Len(bytes') = Len(bytes)
    BY Zenon, Written
  <2> QED
    BY Zenon, <2>1
<1>2. Capacity' = Capacity
  BY Zenon, <1>1 DEF Capacity
<1>3. writing' = {} /\ length > 0
  BY Zenon, Lent
<1> QED
  BY Zenon, <1>1, <1>2, <1>3 DEF BytesInv, TypeOK, WritersInv

\* header writes before the payload.
LEMMA HeaderInv ==
    ASSUME BytesInv, Header("header")
    PROVE  BytesInv'
<1>0. /\ HEADER_SIZE \in Nat /\ TRAILER_SIZE \in Nat
      /\ length \in Nat /\ length > 0 /\ Len(bytes) \in Nat
      /\ HEADER_SIZE + length + TRAILER_SIZE <= Len(bytes)
      /\ bytes \in Seq(ByteType)
      /\ Len(Slice) = HEADER_SIZE + length + TRAILER_SIZE
      /\ expected \in Seq(ByteType) /\ Len(expected) = length
      /\ \A k \in 1..length : bytes[HEADER_SIZE + k] = expected[k]
  <2>1. pc = "slice"
    BY Zenon DEF Header
  <2> QED
    BY Zenon, <2>1, Lent
<1>a. /\ HEADER_SIZE \in Nat /\ TRAILER_SIZE \in Nat /\ length \in Nat
      /\ Len(bytes) \in Nat /\ HEADER_SIZE + length + TRAILER_SIZE <= Len(bytes)
  BY Zenon, <1>0
<1>b. \A k \in 1..length : bytes[HEADER_SIZE + k] = expected[k]
  BY Zenon, <1>0
<1> DEFINE content == [k \in 1..HEADER_SIZE |-> Byte("header", k)]
           from == 0
<1>1. /\ pc = "slice" /\ bytes' = Write(from, content)
      /\ framing' = [framing EXCEPT !.header = content]
      /\ UNCHANGED <<pc, length, writing, expected, round>>
  BY Zenon DEF Header
<1>2. /\ content \in Seq(ByteType) /\ Len(content) = HEADER_SIZE
  <2>1. HEADER_SIZE \in Nat
        /\ "header" \in Writer \cup {"zero", "header", "trailer", "consumer"}
    BY Zenon, <1>0
  <2> QED
    BY Zenon, <2>1, ByteIs
<1>c. from = 0 /\ from \in Nat
  BY Zenon
<1> HIDE DEF content, from
<1>3. framing \in [header : Seq(ByteType), trailer : Seq(ByteType)]
  BY Zenon DEF BytesInv, TypeOK
<1>4. /\ framing' \in [header : Seq(ByteType), trailer : Seq(ByteType)]
      /\ framing'.header = content /\ framing'.trailer = framing.trailer
  BY Zenon, <1>1, <1>2, <1>3
<1>5. TypeOK' /\ WritersInv'
  <2>1. /\ expected' \in Seq(ByteType) /\ Len(expected') = length
        /\ Len(framing'.header) \in {0, HEADER_SIZE}
        /\ Len(framing'.trailer) \in {0, TRAILER_SIZE}
    BY Zenon, <1>0, <1>1, <1>2, <1>4 DEF BytesInv, TypeOK
  <2>2. /\ pc = "slice" /\ UNCHANGED <<pc, length, writing, round>>
        /\ from \in Nat /\ content \in Seq(ByteType)
        /\ bytes' = Write(from, content)
        /\ framing' \in [header : Seq(ByteType), trailer : Seq(ByteType)]
    BY Zenon, <1>1, <1>2, <1>4, <1>c
  <2> QED
    BY Zenon, <2>1, <2>2, ConsumerWrites
<1>6. \A i \in 1..Len(bytes) :
          bytes'[i] = IF from < i /\ i <= from + HEADER_SIZE
                      THEN content[i - from] ELSE bytes[i]
  <2>1. from \in Nat /\ content \in Seq(ByteType) /\ HEADER_SIZE = Len(content)
        /\ bytes' = Write(from, content)
    BY Zenon, <1>1, <1>2, <1>c
  <2> QED
    BY Zenon, <2>1, Written
<1>7. /\ \A i \in 1..HEADER_SIZE : bytes'[i] = content[i]
      /\ \A i \in 1..Len(bytes) : i > HEADER_SIZE => bytes'[i] = bytes[i]
  <2>1. ASSUME NEW i \in 1..HEADER_SIZE
        PROVE  bytes'[i] = content[i]
    <3>1. i \in 1..Len(bytes) /\ from < i /\ i <= from + HEADER_SIZE /\ i - from = i
      BY <1>a, <1>c
    <3> QED
      BY Zenon, <1>6, <3>1
  <2>2. ASSUME NEW i \in 1..Len(bytes), i > HEADER_SIZE
        PROVE  bytes'[i] = bytes[i]
    <3>1. ~(i <= from + HEADER_SIZE)
      BY <1>a, <1>c, <2>2
    <3> QED
      BY Zenon, <1>6, <3>1
  <2> QED
    BY Zenon, <2>1, <2>2
<1>8. PayloadInv'
  <2>1. \A k \in 1..length : bytes'[HEADER_SIZE + k] = expected[k]
    <3>1. \A k \in 1..length : HEADER_SIZE + k \in 1..Len(bytes)
                              /\ HEADER_SIZE + k > HEADER_SIZE
      BY <1>a
    <3> QED
      BY Zenon, <1>7, <1>b, <3>1
  <2> QED
    BY Zenon, <1>1, <2>1 DEF PayloadInv
<1>9. FramingInv'
  <2>1. \A k \in 1..Len(framing.trailer) :
            bytes'[HEADER_SIZE + length + k] = framing.trailer[k]
    <3>1. Len(framing.trailer) \in {0, TRAILER_SIZE}
          /\ \A k \in 1..Len(framing.trailer) :
                bytes[HEADER_SIZE + length + k] = framing.trailer[k]
      BY Zenon DEF BytesInv, TypeOK, FramingInv
    <3>2. \A k \in 1..Len(framing.trailer) :
              /\ HEADER_SIZE + length + k \in 1..Len(bytes)
              /\ HEADER_SIZE + length + k > HEADER_SIZE
      BY <1>a, <3>1
    <3> QED
      BY Zenon, <1>7, <3>1, <3>2
  <2> QED
    BY Zenon, <1>1, <1>2, <1>4, <1>7, <2>1 DEF FramingInv
<1> QED
  BY Zenon, <1>5, <1>8, <1>9 DEF BytesInv

\* trailer writes right after the payload, which a longer payload of an earlier
\* round may have reached.
LEMMA TrailerInv ==
    ASSUME BytesInv, Trailer("trailer")
    PROVE  BytesInv'
<1>0. /\ HEADER_SIZE \in Nat /\ TRAILER_SIZE \in Nat
      /\ length \in Nat /\ length > 0 /\ Len(bytes) \in Nat
      /\ HEADER_SIZE + length + TRAILER_SIZE <= Len(bytes)
      /\ bytes \in Seq(ByteType)
      /\ Len(Slice) = HEADER_SIZE + length + TRAILER_SIZE
      /\ expected \in Seq(ByteType) /\ Len(expected) = length
      /\ \A k \in 1..length : bytes[HEADER_SIZE + k] = expected[k]
  <2>1. pc = "slice"
    BY Zenon DEF Trailer
  <2> QED
    BY Zenon, <2>1, Lent
<1>a. /\ HEADER_SIZE \in Nat /\ TRAILER_SIZE \in Nat /\ length \in Nat
      /\ Len(bytes) \in Nat /\ HEADER_SIZE + length + TRAILER_SIZE <= Len(bytes)
  BY Zenon, <1>0
<1>b. \A k \in 1..length : bytes[HEADER_SIZE + k] = expected[k]
  BY Zenon, <1>0
<1> DEFINE content == [k \in 1..TRAILER_SIZE |-> Byte("trailer", k)]
           from == Len(Slice) - TRAILER_SIZE
<1>1. /\ pc = "slice" /\ bytes' = Write(from, content)
      /\ framing' = [framing EXCEPT !.trailer = content]
      /\ UNCHANGED <<pc, length, writing, expected, round>>
  BY Zenon DEF Trailer
<1>2. /\ content \in Seq(ByteType) /\ Len(content) = TRAILER_SIZE
  <2>1. TRAILER_SIZE \in Nat
        /\ "trailer" \in Writer \cup {"zero", "header", "trailer", "consumer"}
    BY Zenon, <1>0
  <2> QED
    BY Zenon, <2>1, ByteIs
<1>c. from = HEADER_SIZE + length /\ from \in Nat
  <2>1. Len(Slice) = HEADER_SIZE + length + TRAILER_SIZE
    BY Zenon, <1>0
  <2> QED
    BY <1>a, <2>1
<1> HIDE DEF content, from
<1>3. framing \in [header : Seq(ByteType), trailer : Seq(ByteType)]
  BY Zenon DEF BytesInv, TypeOK
<1>4. /\ framing' \in [header : Seq(ByteType), trailer : Seq(ByteType)]
      /\ framing'.trailer = content /\ framing'.header = framing.header
  BY Zenon, <1>1, <1>2, <1>3
<1>5. TypeOK' /\ WritersInv'
  <2>1. /\ expected' \in Seq(ByteType) /\ Len(expected') = length
        /\ Len(framing'.header) \in {0, HEADER_SIZE}
        /\ Len(framing'.trailer) \in {0, TRAILER_SIZE}
    BY Zenon, <1>0, <1>1, <1>2, <1>4 DEF BytesInv, TypeOK
  <2>2. /\ pc = "slice" /\ UNCHANGED <<pc, length, writing, round>>
        /\ from \in Nat /\ content \in Seq(ByteType)
        /\ bytes' = Write(from, content)
        /\ framing' \in [header : Seq(ByteType), trailer : Seq(ByteType)]
    BY Zenon, <1>1, <1>2, <1>4, <1>c
  <2> QED
    BY Zenon, <2>1, <2>2, ConsumerWrites
<1>6. \A i \in 1..Len(bytes) :
          bytes'[i] = IF from < i /\ i <= from + TRAILER_SIZE
                      THEN content[i - from] ELSE bytes[i]
  <2>1. from \in Nat /\ content \in Seq(ByteType) /\ TRAILER_SIZE = Len(content)
        /\ bytes' = Write(from, content)
    BY Zenon, <1>1, <1>2, <1>c
  <2> QED
    BY Zenon, <2>1, Written
<1>7. /\ \A k \in 1..TRAILER_SIZE : bytes'[HEADER_SIZE + length + k] = content[k]
      /\ \A i \in 1..(HEADER_SIZE + length) : bytes'[i] = bytes[i]
  <2>1. ASSUME NEW k \in 1..TRAILER_SIZE
        PROVE  bytes'[HEADER_SIZE + length + k] = content[k]
    <3>1. /\ HEADER_SIZE + length + k \in 1..Len(bytes)
          /\ from < HEADER_SIZE + length + k
          /\ HEADER_SIZE + length + k <= from + TRAILER_SIZE
          /\ (HEADER_SIZE + length + k) - from = k
      BY <1>a, <1>c
    <3> QED
      BY Zenon, <1>6, <3>1
  <2>2. ASSUME NEW i \in 1..(HEADER_SIZE + length)
        PROVE  bytes'[i] = bytes[i]
    <3>1. i \in 1..Len(bytes) /\ ~(from < i)
      BY <1>a, <1>c
    <3> QED
      BY Zenon, <1>6, <3>1
  <2> QED
    BY Zenon, <2>1, <2>2
<1>8. PayloadInv'
  <2>1. \A k \in 1..length : bytes'[HEADER_SIZE + k] = expected[k]
    <3>1. \A k \in 1..length : HEADER_SIZE + k \in 1..(HEADER_SIZE + length)
      BY <1>a
    <3> QED
      BY Zenon, <1>7, <1>b, <3>1
  <2> QED
    BY Zenon, <1>1, <2>1 DEF PayloadInv
<1>9. FramingInv'
  <2>1. \A k \in 1..Len(framing.header) : bytes'[k] = framing.header[k]
    <3>1. Len(framing.header) \in {0, HEADER_SIZE}
          /\ \A k \in 1..Len(framing.header) : bytes[k] = framing.header[k]
      BY Zenon DEF BytesInv, TypeOK, FramingInv
    <3>2. \A k \in 1..Len(framing.header) : k \in 1..(HEADER_SIZE + length)
      BY <1>a, <3>1
    <3> QED
      BY Zenon, <1>7, <3>1, <3>2
  <2> QED
    BY Zenon, <1>1, <1>2, <1>4, <1>7, <2>1 DEF FramingInv
<1> QED
  BY Zenon, <1>5, <1>8, <1>9 DEF BytesInv

\* deref_mut reaches one byte of the payload, and no other.
LEMMA DerefMutInv ==
    ASSUME BytesInv, NEW k \in 1..length, DerefMut("consumer", k)
    PROVE  BytesInv'
<1> DEFINE byte == Byte("consumer", k)
           content == <<byte>>
           from == HEADER_SIZE + k - 1
<1>1. /\ pc = "slice" /\ bytes' = Write(from, content)
      /\ expected' = [expected EXCEPT ![k] = byte]
      /\ UNCHANGED <<pc, length, writing, framing, round>>
  BY Zenon DEF DerefMut
<1>0. /\ HEADER_SIZE \in Nat /\ TRAILER_SIZE \in Nat
      /\ length \in Nat /\ length > 0 /\ Len(bytes) \in Nat
      /\ HEADER_SIZE + length + TRAILER_SIZE <= Len(bytes)
      /\ bytes \in Seq(ByteType)
      /\ expected \in Seq(ByteType) /\ Len(expected) = length
      /\ \A j \in 1..length : bytes[HEADER_SIZE + j] = expected[j]
  BY Zenon, <1>1, Lent
<1>a. /\ HEADER_SIZE \in Nat /\ TRAILER_SIZE \in Nat /\ length \in Nat
      /\ Len(bytes) \in Nat /\ HEADER_SIZE + length + TRAILER_SIZE <= Len(bytes)
      /\ k \in Nat /\ k >= 1 /\ k <= length
  BY <1>0
<1>b. \A j \in 1..length : bytes[HEADER_SIZE + j] = expected[j]
  BY Zenon, <1>0
<1>2. byte \in ByteType
  <2>1. k \in Nat /\ 0 \in Nat
        /\ "consumer" \in Writer \cup {"zero", "header", "trailer", "consumer"}
    BY Zenon, <1>a
  <2> QED
    BY Zenon, <2>1, ByteIs
<1>c. from = HEADER_SIZE + k - 1 /\ from \in Nat
  BY <1>a
<1> HIDE DEF byte
<1>3. content \in Seq(ByteType) /\ Len(content) = 1 /\ content[1] = byte
  BY <1>2
<1> HIDE DEF content, from
<1>4. /\ expected' \in Seq(ByteType) /\ Len(expected') = length
      /\ \A j \in 1..length : expected'[j] = IF j = k THEN byte ELSE expected[j]
  <2>1. expected \in Seq(ByteType) /\ Len(expected) = length
    BY Zenon, <1>0
  <2> QED
    BY <1>1, <1>2, <1>a, <2>1
<1>5. TypeOK' /\ WritersInv'
  <2>1. /\ framing' \in [header : Seq(ByteType), trailer : Seq(ByteType)]
        /\ Len(framing'.header) \in {0, HEADER_SIZE}
        /\ Len(framing'.trailer) \in {0, TRAILER_SIZE}
    BY Zenon, <1>1 DEF BytesInv, TypeOK
  <2>2. /\ pc = "slice" /\ UNCHANGED <<pc, length, writing, round>>
        /\ from \in Nat /\ content \in Seq(ByteType)
        /\ bytes' = Write(from, content)
        /\ expected' \in Seq(ByteType) /\ Len(expected') = length
    BY Zenon, <1>1, <1>3, <1>4, <1>c
  <2> QED
    BY Zenon, <2>1, <2>2, ConsumerWrites
<1>6. \A i \in 1..Len(bytes) :
          bytes'[i] = IF from < i /\ i <= from + 1
                      THEN content[i - from] ELSE bytes[i]
  <2>1. from \in Nat /\ content \in Seq(ByteType) /\ 1 = Len(content)
        /\ bytes' = Write(from, content)
    BY Zenon, <1>1, <1>3, <1>c
  <2> QED
    BY Zenon, <2>1, Written
<1>7. /\ bytes'[HEADER_SIZE + k] = byte
      /\ \A i \in 1..Len(bytes) : i # HEADER_SIZE + k => bytes'[i] = bytes[i]
  <2>1. /\ HEADER_SIZE + k \in 1..Len(bytes) /\ from < HEADER_SIZE + k
        /\ HEADER_SIZE + k <= from + 1 /\ (HEADER_SIZE + k) - from = 1
    BY <1>a, <1>c
  <2>2. bytes'[HEADER_SIZE + k] = byte
    BY Zenon, <1>6, <1>3, <2>1
  <2>3. ASSUME NEW i \in 1..Len(bytes), i # HEADER_SIZE + k
        PROVE  bytes'[i] = bytes[i]
    <3>1. ~(from < i /\ i <= from + 1)
      BY <1>a, <1>c, <2>3
    <3> QED
      BY Zenon, <1>6, <3>1
  <2> QED
    BY Zenon, <2>2, <2>3
<1>8. PayloadInv'
  <2>1. ASSUME NEW j \in 1..length
        PROVE  bytes'[HEADER_SIZE + j] = expected'[j]
    <3>1. CASE j = k
      BY Zenon, <1>4, <1>7, <3>1
    <3>2. CASE j # k
      <4>1. HEADER_SIZE + j \in 1..Len(bytes) /\ HEADER_SIZE + j # HEADER_SIZE + k
        BY <1>a, <3>2
      <4> QED
        BY Zenon, <1>4, <1>7, <1>b, <3>2, <4>1
    <3> QED
      BY Zenon, <3>1, <3>2
  <2> QED
    BY Zenon, <1>1, <2>1 DEF PayloadInv
<1>9. FramingInv'
  <2>1. /\ Len(framing.header) \in {0, HEADER_SIZE}
        /\ Len(framing.trailer) \in {0, TRAILER_SIZE}
        /\ \A j \in 1..Len(framing.header) : bytes[j] = framing.header[j]
        /\ \A j \in 1..Len(framing.trailer) :
              bytes[HEADER_SIZE + length + j] = framing.trailer[j]
    BY Zenon DEF BytesInv, TypeOK, FramingInv
  <2>2. /\ \A j \in 1..Len(framing.header) :
              j \in 1..Len(bytes) /\ j # HEADER_SIZE + k
        /\ \A j \in 1..Len(framing.trailer) :
              /\ HEADER_SIZE + length + j \in 1..Len(bytes)
              /\ HEADER_SIZE + length + j # HEADER_SIZE + k
    BY <1>a, <2>1
  <2>3. /\ \A j \in 1..Len(framing.header) : bytes'[j] = framing.header[j]
        /\ \A j \in 1..Len(framing.trailer) :
              bytes'[HEADER_SIZE + length + j] = framing.trailer[j]
    BY Zenon, <1>7, <2>1, <2>2
  <2> QED
    BY Zenon, <1>1, <2>3 DEF FramingInv
<1> QED
  BY Zenon, <1>5, <1>8, <1>9 DEF BytesInv

\* Every step of the writers and of the consumer keeps the invariant.
LEMMA NextInv == BytesInv /\ [Next]_vars => BytesInv'
<1> SUFFICES ASSUME BytesInv, [Next]_vars PROVE BytesInv'
  BY Zenon
<1>1. CASE UNCHANGED vars
  BY Zenon, <1>1
     DEF vars, BytesInv, TypeOK, WritersInv, PayloadInv, FramingInv,
              Capacity, Unwritten, Byte
<1>2. CASE \E capa \in Capacities : Resize(capa)
  BY Zenon, <1>2, ResizeInv
<1>3. CASE \E w \in Writer : Reserve(w)
  BY Zenon, <1>3, ReserveInv
<1>4. CASE \E v \in writing : Insert(v)
  BY Zenon, <1>4, InsertInv
<1>5. CASE TakeSlice \/ Requeue
  BY Zenon, <1>5, LendInv
<1>6. CASE Release
  BY Zenon, <1>6, ReleaseInv
<1>7. CASE Header("header")
  BY Zenon, <1>7, HeaderInv
<1>8. CASE Trailer("trailer")
  BY Zenon, <1>8, TrailerInv
<1>9. CASE \E k \in 1..length : DerefMut("consumer", k)
  BY Zenon, <1>9, DerefMutInv
<1> QED
  BY Zenon, <1>1, <1>2, <1>3, <1>4, <1>5, <1>6, <1>7, <1>8, <1>9 DEF Next

\* The life of a byte buffer, of any capacities, sizes of header and trailer, and
\* writers: the ranges reserved are disjoint and inside the capacity, and what
\* no writer owes is in place, header and trailer around it (insert_into, slice,
\* header, trailer, clear).
THEOREM BytesInvariance == Spec => []BytesInv
<1>1. Init => BytesInv
  BY Zenon, InitInv
<1> QED
  BY <1>1, NextInv, PTL DEF Spec

\* What the consumer reads through deref is what the writers of this round wrote
\* and what it overwrote itself, and nothing of an earlier round.
THEOREM PayloadExact == Spec => []PayloadIsExact
<1>1. BytesInv => PayloadIsExact
  <2> SUFFICES ASSUME BytesInv, pc = "slice" PROVE Deref = expected
    BY Zenon DEF PayloadIsExact
  <2>1. /\ HEADER_SIZE \in Nat /\ TRAILER_SIZE \in Nat /\ length \in Nat
        /\ Len(Slice) = HEADER_SIZE + length + TRAILER_SIZE
    BY Zenon, Lent
  <2>2. \A i \in 1..Len(Slice) : Slice[i] = bytes[i]
    BY Zenon, Lent
  <2>3. \A k \in 1..length : bytes[HEADER_SIZE + k] = expected[k]
    BY Zenon, Lent
  <2>4. expected \in Seq(ByteType) /\ Len(expected) = length
    BY Zenon, Lent
  <2>5. Deref = [k \in 1..length |-> Slice[HEADER_SIZE + k]]
    BY <2>1 DEF Deref
  <2>6. \A k \in 1..length : Slice[HEADER_SIZE + k] = expected[k]
    <3>1. \A k \in 1..length : HEADER_SIZE + k \in 1..Len(Slice)
      BY <2>1
    <3> QED
      BY Zenon, <2>2, <2>3, <3>1
  <2>7. expected = [k \in 1..length |-> expected[k]]
    BY <2>4
  <2> QED
    BY Zenon, <2>5, <2>6, <2>7
<1> QED
  BY <1>1, BytesInvariance, PTL

\* frame is the header last written, the payload and the trailer last written.
THEOREM FrameExact == Spec => []FrameIsExact
<1>1. BytesInv => FrameIsExact
  <2> DEFINE h == framing.header
             e == expected
             t == framing.trailer
             s == Slice
  <2> SUFFICES ASSUME BytesInv, pc = "slice", Len(h) = HEADER_SIZE,
                      Len(t) = TRAILER_SIZE
               PROVE  s = h \o e \o t
    BY Zenon DEF FrameIsExact
  <2>1. /\ HEADER_SIZE \in Nat /\ TRAILER_SIZE \in Nat /\ length \in Nat
        /\ Len(s) = HEADER_SIZE + length + TRAILER_SIZE
        /\ Len(bytes) \in Nat /\ HEADER_SIZE + length + TRAILER_SIZE <= Len(bytes)
    BY Zenon, Lent
  <2>2. \A i \in 1..Len(s) : s[i] = bytes[i]
    BY Zenon, Lent
  <2>3. \A k \in 1..length : bytes[HEADER_SIZE + k] = e[k]
    BY Zenon, Lent
  <2>4. e \in Seq(ByteType) /\ Len(e) = length
    BY Zenon, Lent
  <2>5. h \in Seq(ByteType) /\ t \in Seq(ByteType)
    BY Zenon DEF BytesInv, TypeOK
  <2>6. /\ \A k \in 1..HEADER_SIZE : bytes[k] = h[k]
        /\ \A k \in 1..TRAILER_SIZE : bytes[HEADER_SIZE + length + k] = t[k]
    BY Zenon DEF BytesInv, FramingInv
  <2>7. s \in Seq(ByteType)
    <3>1. bytes \in Seq(ByteType)
      BY Zenon, Lent
    <3> QED
      BY <2>1, <3>1 DEF Slice
  <2> HIDE DEF h, e, t, s
  <2>8. /\ \A k \in 1..HEADER_SIZE : k \in 1..Len(s)
        /\ \A k \in 1..length : HEADER_SIZE + k \in 1..Len(s)
        /\ \A k \in 1..TRAILER_SIZE : HEADER_SIZE + length + k \in 1..Len(s)
    BY <2>1
  <2>9. /\ Holds(s, 0, h, HEADER_SIZE)
        /\ Holds(s, HEADER_SIZE, e, length)
        /\ Holds(s, HEADER_SIZE + length, t, TRAILER_SIZE)
    <3>1. \A k \in 1..HEADER_SIZE : 0 + k = k
      BY <2>1
    <3> QED
      BY <2>2, <2>3, <2>6, <2>8, <3>1, Zenon DEF Holds
  <2>10. /\ IsSeq(h, ByteType, HEADER_SIZE) /\ IsSeq(e, ByteType, length)
         /\ IsSeq(t, ByteType, TRAILER_SIZE)
         /\ IsSeq(s, ByteType, (HEADER_SIZE + length) + TRAILER_SIZE)
    BY <2>1, <2>4, <2>5, <2>7 DEF IsSeq
  <2> QED
    BY <2>9, <2>10, ThreeParts, Zenon
<1> QED
  BY <1>1, BytesInvariance, PTL
=============================================================================
