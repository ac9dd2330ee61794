------------------------ MODULE WriteVectoredProofs ------------------------
(***************************************************************************)
(* VectoredInv, and from it what a vectored buffer lends: the io-slices of *)
(* the values it owns, and the frame around them.  These theorems are      *)
(* about frames of the whole slice; with bounds they are false (see the    *)
(* finding on VectoredSlice::frame).  Then SizeInv, for any frames: the    *)
(* counter of the buffer is the sum of the sizes of its values.            *)
(***************************************************************************)
EXTENDS WriteVectored, FiniteSetTheorems, TLAPS

-----------------------------------------------------------------------------
(* Sequences: when a frame is its header, its items and its trailer.       *)

\* s is a sequence of n elements of S.
IsSeq(s, S, n) == s \in Seq(S) /\ n \in Nat /\ Len(s) = n

\* s holds the n elements of a after its first off ones.
Holds(s, off, a, n) == \A k \in 1..n : s[off + k] = a[k]

\* r holds the m elements of a, and then the n elements of b.
Joins(r, a, m, b, n) ==
    \A i \in 1..(m + n) : r[i] = IF i <= m THEN a[i] ELSE b[i - m]

\* What a concatenation holds.
LEMMA ConcatIs ==
    ASSUME NEW S, NEW a, NEW b, NEW m, NEW n, IsSeq(a, S, m), IsSeq(b, S, n)
    PROVE  IsSeq(a \o b, S, m + n) /\ Joins(a \o b, a, m, b, n)
<1>1. a \o b \in Seq(S) /\ Len(a \o b) = m + n /\ m + n \in Nat
  BY DEF IsSeq
<1>2. \A i \in 1..(m + n) : (a \o b)[i] = IF i <= m THEN a[i] ELSE b[i - m]
  BY DEF IsSeq
<1> QED
  BY Zenon, <1>1, <1>2 DEF IsSeq, Joins

\* A sequence made of three parts is their concatenation.
LEMMA ThreeParts ==
    ASSUME NEW S, NEW a, NEW b, NEW c, NEW s, NEW m, NEW n, NEW p,
           IsSeq(a, S, m), IsSeq(b, S, n), IsSeq(c, S, p),
           IsSeq(s, S, (m + n) + p),
           Holds(s, 0, a, m), Holds(s, m, b, n), Holds(s, m + n, c, p)
    PROVE  s = a \o b \o c
<1> DEFINE ab == a \o b
           r == ab \o c
           all == 1..((m + n) + p)
<1>1. \A v \in Seq(S) : v = [i \in 1..Len(v) |-> v[i]]
  OBVIOUS
<1>2. /\ r \in Seq(S) /\ Len(r) = (m + n) + p
      /\ \A i \in all : r[i] = IF i <= m THEN a[i]
                               ELSE IF i <= m + n THEN b[i - m]
                               ELSE c[i - (m + n)]
  <2>1. IsSeq(ab, S, m + n) /\ Joins(ab, a, m, b, n)
    BY Zenon, ConcatIs
  <2> HIDE DEF ab
  <2>2. IsSeq(r, S, (m + n) + p) /\ Joins(r, ab, m + n, c, p)
    BY Zenon, <2>1, ConcatIs
  <2> HIDE DEF r
  <2> QED
    BY <2>1, <2>2 DEF IsSeq, Joins
<1>3. m \in Nat /\ n \in Nat /\ p \in Nat
  BY Zenon DEF IsSeq
<1> HIDE DEF ab, r
<1>4. ASSUME NEW i \in all PROVE s[i] = r[i]
  <2>1. CASE i <= m
    <3>1. i \in 1..m /\ 0 + i = i
      BY <1>3, <2>1
    <3>2. s[0 + i] = a[i]
      BY Zenon, <3>1 DEF Holds
    <3> QED
      BY Zenon, <1>2, <2>1, <3>1, <3>2
  <2>2. CASE ~(i <= m) /\ i <= m + n
    <3>1. i - m \in 1..n /\ m + (i - m) = i
      BY <1>3, <2>2
    <3>2. s[m + (i - m)] = b[i - m]
      BY Zenon, <3>1 DEF Holds
    <3> QED
      BY Zenon, <1>2, <2>2, <3>1, <3>2
  <2>3. CASE ~(i <= m) /\ ~(i <= m + n)
    <3>1. i - (m + n) \in 1..p /\ (m + n) + (i - (m + n)) = i
      BY <1>3, <2>3
    <3>2. s[(m + n) + (i - (m + n))] = c[i - (m + n)]
      BY Zenon, <3>1 DEF Holds
    <3> QED
      BY Zenon, <1>2, <2>3, <3>1, <3>2
  <2> QED
    BY Zenon, <2>1, <2>2, <2>3
<1>5. [i \in all |-> s[i]] = [i \in all |-> r[i]]
  BY Zenon, <1>4
<1>6. s = [i \in all |-> s[i]] /\ r = [i \in all |-> r[i]]
  BY Zenon, <1>1, <1>2 DEF IsSeq
<1> QED
  BY Zenon, <1>5, <1>6 DEF r, ab

-----------------------------------------------------------------------------
(* The buffer.                                                             *)

\* The capacities, and the cells and slots they leave room for.
LEMMA Room ==
    TypeOK => /\ MaxCapacity \in Nat /\ capacity \in Nat
              /\ capacity <= MaxCapacity /\ Uninit \notin Blob
              /\ range.start \in Nat /\ range.end \in Nat
              /\ \A i \in Cell : i \in Nat /\ i + 1 \in Slot /\ i \in Slot
  BY WriteVectoredAssumption DEF TypeOK, Cell, Slot

\* An empty buffer.
LEMMA InitInv == Init => VectoredInv
<1> SUFFICES ASSUME Init PROVE VectoredInv
  BY Zenon
<1>1. TypeOK
  BY Zenon DEF Init, TypeOK
<1>2. Filled = {}
  BY Zenon DEF Init, Filled
<1> QED
  BY Zenon, <1>1, <1>2 DEF Init, VectoredInv, OwnersInv, RangeInv, FrameInv

\* A value goes into a free cell, its io-slice into the slot after it.
LEMMA InsertInv ==
    ASSUME VectoredInv, NEW index \in Cell, NEW value \in Blob,
           Insert(index, value)
    PROVE  VectoredInv'
<1>1. TypeOK /\ OwnersInv /\ FrameInv
  BY Zenon DEF VectoredInv
<1>2. /\ pc = "fill" /\ pc' = pc /\ capacity' = capacity /\ range' = range
      /\ frame' = frame
      /\ slices' = [slices EXCEPT ![index + 1] = value]
      /\ owned' = [owned EXCEPT ![index] = value]
  BY Zenon DEF Insert
<1>3. TypeOK'
  BY Zenon, <1>1, <1>2 DEF TypeOK
<1>4. frame' = NoFrame
  BY Zenon, <1>1, <1>2 DEF FrameInv
<1>5. ASSUME NEW i \in Cell, owned'[i] # Uninit
      PROVE  slices'[i + 1] = owned'[i]
  <2>1. index + 1 \in Slot /\ i + 1 \in Slot /\ i \in Nat /\ index \in Nat
    BY Zenon, <1>1, Room
  <2>2. CASE i = index
    BY Zenon, <1>1, <1>2, <2>1, <2>2 DEF TypeOK
  <2>3. CASE i # index
    <3>1. owned'[i] = owned[i] /\ slices'[i + 1] = slices[i + 1]
      BY <1>1, <1>2, <2>1, <2>3 DEF TypeOK
    <3> QED
      BY Zenon, <1>1, <1>5, <3>1 DEF OwnersInv, RangeInv, Filled
  <2> QED
    BY Zenon, <2>2, <2>3
<1>6. OwnersInv'
  BY Zenon, <1>2, <1>5 DEF OwnersInv, RangeInv, Filled
<1> QED
  BY Zenon, <1>3, <1>4, <1>6 DEF VectoredInv, FrameInv

\* A resize, of an empty buffer, drops nothing.
LEMMA ResizeInv ==
    ASSUME VectoredInv, NEW capa \in Capacities, Resize(capa)
    PROVE  VectoredInv'
<1>1. TypeOK'
  BY Zenon DEF VectoredInv, Resize, TypeOK
<1>2. Filled' = {}
  BY Zenon DEF Resize, Filled
<1>3. pc' = "fill" /\ frame' = NoFrame
  BY Zenon DEF VectoredInv, FrameInv, Resize
<1> QED
  BY Zenon, <1>1, <1>2, <1>3 DEF VectoredInv, OwnersInv, RangeInv, FrameInv

\* The queue and the holder of the handle pass the range on.
LEMMA LendInv ==
    ASSUME VectoredInv, TakeSlice \/ SliceAgain \/ IntoIter \/ Requeue
    PROVE  VectoredInv'
<1>1. TypeOK /\ OwnersInv /\ FrameInv
  BY Zenon DEF VectoredInv
<1>2. UNCHANGED <<capacity, owned, slices, frame>>
  BY Zenon DEF TakeSlice, SliceAgain, IntoIter, Requeue
<1>3. Filled' = Filled
  BY Zenon, <1>2 DEF Filled
<1>4. CASE TakeSlice
  <2>1. PICK n \in 1..capacity :
            /\ Filled = 0..(n - 1) /\ range' = [start |-> 0, end |-> n]
    BY Zenon, <1>4 DEF TakeSlice, Slice
  <2>2. pc = "fill" /\ pc' = "slice"
    BY Zenon, <1>4 DEF TakeSlice
  <2>3. n \in Nat /\ 0 <= n /\ n <= capacity
    BY <1>1, <2>1, Room
  <2>4. range'.start = 0 /\ range'.end = n /\ range' \in [start : Nat, end : Nat]
    BY Zenon, <2>1, <2>3
  <2>5. TypeOK'
    BY Zenon, <1>1, <1>2, <2>2, <2>3, <2>4 DEF TypeOK
  <2>6. frame' = NoFrame
    BY Zenon, <1>1, <1>2, <2>2 DEF FrameInv
  <2> QED
    BY Zenon, <1>1, <1>2, <1>3, <2>1, <2>4, <2>5, <2>6
       DEF VectoredInv, OwnersInv, RangeInv, FrameInv
<1>5. CASE SliceAgain \/ IntoIter \/ Requeue
  <2>1. /\ pc # "fill" /\ pc' \in {"slice", "iter", "due"}
        /\ frame' = NoFrame
    BY Zenon, <1>1, <1>5 DEF SliceAgain, IntoIter, Requeue, FrameInv
  <2>2. range' = range
    BY Zenon, <1>1, <1>5 DEF SliceAgain, IntoIter, Requeue, Slice, TypeOK
  <2>3. TypeOK'
    BY Zenon, <1>1, <1>2, <2>1, <2>2 DEF TypeOK
  <2> QED
    BY Zenon, <1>1, <1>2, <1>3, <2>1, <2>2, <2>3
       DEF VectoredInv, OwnersInv, RangeInv, FrameInv
<1> QED
  BY Zenon, <1>4, <1>5

\* next takes the value at the start of the range, and clear those of all of it.
LEMMA RemoveInv ==
    ASSUME VectoredInv, NextValue \/ Release
    PROVE  VectoredInv'
<1>1. TypeOK /\ OwnersInv /\ FrameInv
  BY Zenon DEF VectoredInv
<1>2. UNCHANGED <<capacity, slices>>
  BY Zenon DEF NextValue, Release
<1>3. CASE NextValue
  <2>1. /\ pc = "iter" /\ pc' = pc /\ frame' = frame /\ range.start < range.end
        /\ owned' = [i \in Cell |-> IF i \in {range.start} THEN Uninit ELSE owned[i]]
        /\ range' = [range EXCEPT !.start = @ + 1]
    BY Zenon, <1>3 DEF NextValue, Remove
  <2>2. /\ range'.start = range.start + 1 /\ range'.end = range.end
        /\ range' \in [start : Nat, end : Nat]
    BY <1>1, <2>1 DEF TypeOK
  <2>3. range.start \in Nat /\ range.end \in Nat
    BY Zenon, <1>1, Room
  <2>4. TypeOK'
    BY <1>1, <1>2, <2>1, <2>2, <2>3 DEF TypeOK
  <2>5. Filled' = Filled \ {range.start}
    BY Zenon, <2>1 DEF Filled
  <2>6. Filled = range.start..(range.end - 1)
    BY Zenon, <1>1, <2>1 DEF OwnersInv, RangeInv
  <2>7. Filled' = (range'.start)..(range'.end - 1)
    BY <2>2, <2>3, <2>5, <2>6
  <2>8. \A i \in Filled' : slices'[i + 1] = owned'[i]
    BY Zenon, <1>1, <1>2, <2>1, <2>5 DEF OwnersInv, RangeInv, Filled
  <2>9. frame' = NoFrame
    BY Zenon, <1>1, <2>1 DEF FrameInv
  <2> QED
    BY Zenon, <2>4, <2>7, <2>8, <2>9 DEF VectoredInv, OwnersInv, RangeInv, FrameInv
<1>4. CASE Release
  <2>1. /\ pc # "fill" /\ pc' = "fill" /\ frame' = NoFrame /\ range' = range
        /\ owned' = [i \in Cell |-> IF i \in range.start..(range.end - 1)
                                    THEN Uninit ELSE owned[i]]
    BY Zenon, <1>4 DEF Release, Remove
  <2>2. Filled = range.start..(range.end - 1)
    BY Zenon, <1>1, <2>1 DEF OwnersInv, RangeInv
  <2>3. Filled' = {}
    BY Zenon, <2>1, <2>2 DEF Filled
  <2>4. TypeOK'
    BY Zenon, <1>1, <1>2, <2>1 DEF TypeOK
  <2> QED
    BY Zenon, <2>1, <2>3, <2>4 DEF VectoredInv, OwnersInv, RangeInv, FrameInv
<1> QED
  BY Zenon, <1>3, <1>4

\* The slots before and after the range: no value has its io-slice there.
LEMMA FreeSlots ==
    ASSUME VectoredInv, pc # "fill"
    PROVE  /\ range.start \in Nat /\ range.end \in Nat /\ range.start <= range.end
           /\ range.start \in Slot /\ range.end + 1 \in Slot
           /\ \A i \in Filled : /\ i \in Nat /\ i + 1 \in Slot
                                /\ i + 1 # range.start /\ i + 1 # range.end + 1
<1>1. TypeOK /\ OwnersInv
  BY Zenon DEF VectoredInv
<1>2. /\ range.start \in Nat /\ range.end \in Nat
      /\ capacity \in Nat /\ MaxCapacity \in Nat /\ capacity <= MaxCapacity
  BY Zenon, <1>1, Room
<1>3. range.start <= range.end /\ range.end <= capacity
  BY Zenon, <1>1 DEF TypeOK
<1>4. Filled = range.start..(range.end - 1)
  BY Zenon, <1>1 DEF OwnersInv, RangeInv
<1>5. range.start \in Slot /\ range.end + 1 \in Slot
  BY <1>2, <1>3 DEF Slot
<1>6. ASSUME NEW i \in Filled
      PROVE  /\ i \in Nat /\ i + 1 \in Slot
             /\ i + 1 # range.start /\ i + 1 # range.end + 1
  BY <1>2, <1>3, <1>4 DEF Slot
<1> QED
  BY Zenon, <1>2, <1>3, <1>5, <1>6

\* Writing those two slots leaves the io-slices of the values alone.
LEMMA SlotsWritten ==
    ASSUME VectoredInv, pc # "fill", UNCHANGED <<capacity, owned, pc, range>>,
           slices' = [i \in Slot |-> slices'[i]],
           \A i \in Slot : i # range.start /\ i # range.end + 1
                             => slices'[i] = slices[i]
    PROVE  TypeOK' /\ OwnersInv'
<1>1. TypeOK'
  BY Zenon DEF VectoredInv, TypeOK
<1>2. Filled' = Filled
  BY Zenon DEF Filled
<1>3. \A i \in Filled : slices'[i + 1] = slices[i + 1]
  BY Zenon, FreeSlots
<1> QED
  BY Zenon, <1>1, <1>2, <1>3 DEF VectoredInv, OwnersInv, RangeInv

\* One slot may be written.
LEMMA MayWrite ==
    ASSUME NEW f, NEW D, f = [i \in D |-> f[i]], NEW k \in D, NEW x,
           NEW b \in BOOLEAN, NEW g, g = IF b THEN [f EXCEPT ![k] = x] ELSE f
    PROVE  /\ g = [i \in D |-> g[i]]
           /\ \A i \in D : i # k => g[i] = f[i]
           /\ b => g[k] = x
<1>1. CASE ~b
  BY Zenon, <1>1
<1>2. CASE b
  <2>1. g = [f EXCEPT ![k] = x]
    BY Zenon, <1>2
  <2>2. g = [i \in D |-> IF i = k THEN x ELSE f[i]]
    BY Zenon, <2>1
  <2> QED
    BY Zenon, <2>2
<1> QED
  BY Zenon, <1>1, <1>2

\* A frame of the whole slice takes the slots next to the range.
LEMMA FrameStep ==
    ASSUME VectoredInv, ~Bounded,
           NEW bounds \in FrameRanges(range.end - range.start),
           NEW header \in BOOLEAN, NEW trailer \in BOOLEAN,
           Frame(bounds, header, trailer)
    PROVE  VectoredInv'
<1> DEFINE lo == range.start + FrameStart(bounds[1])
           hi == range.start + FrameEnd(bounds[2], range.end - range.start)
           last == hi - 1
           first == IF header THEN [slices EXCEPT ![lo] = Header] ELSE slices
           both == IF trailer THEN [first EXCEPT ![last] = Trailer] ELSE first
           start == IF header THEN lo ELSE lo + 1
           end == IF trailer THEN hi ELSE last
<1>1. bounds = <<Unbounded, Unbounded>>
  BY DEF FrameRanges
<1>2. FrameStart(bounds[1]) = 0
  BY Zenon, <1>1 DEF FrameStart, Unbounded, Bound
<1>3. FrameEnd(bounds[2], range.end - range.start) = (range.end - range.start) + 2
  BY Zenon, <1>1 DEF FrameEnd, Unbounded, Bound
<1>4. pc = "slice" /\ UNCHANGED <<capacity, owned, pc, range>>
  BY Zenon DEF Frame
<1>5. /\ range.start \in Nat /\ range.end \in Nat /\ range.start <= range.end
      /\ range.start \in Slot /\ range.end + 1 \in Slot
  BY Zenon, <1>4, FreeSlots
<1>6. lo = range.start /\ hi = range.end + 2 /\ last = range.end + 1
  BY <1>2, <1>3, <1>5
<1>7. slices' = both
  BY Zenon DEF Frame
<1>8. /\ frame'.start = start /\ frame'.end = end /\ frame'.range = bounds
      /\ frame'.header = (IF header THEN <<slices[lo]>> ELSE <<>>)
      /\ frame'.trailer = (IF trailer THEN <<first[last]>> ELSE <<>>)
      /\ frame'.panicked = (start > end)
  BY Zenon DEF Frame
<1> HIDE DEF lo, hi, last
<1>9. ~(start > end)
  BY <1>5, <1>6
<1>10. slices = [i \in Slot |-> slices[i]] /\ lo \in Slot /\ last \in Slot
  BY Zenon, <1>5, <1>6 DEF VectoredInv, TypeOK
<1>11. /\ first = [i \in Slot |-> first[i]]
       /\ \A i \in Slot : i # lo => first[i] = slices[i]
       /\ header => first[lo] = Header
  BY <1>10, MayWrite, Zenon
<1> HIDE DEF first
<1>12. /\ both = [i \in Slot |-> both[i]]
       /\ \A i \in Slot : i # last => both[i] = first[i]
       /\ trailer => both[last] = Trailer
  BY <1>10, <1>11, MayWrite, Zenon
<1> HIDE DEF both
<1>13. TypeOK' /\ OwnersInv'
  <2>1. \A i \in Slot : i # range.start /\ i # range.end + 1
                          => slices'[i] = slices[i]
    BY <1>6, <1>7, <1>11, <1>12, Zenon
  <2>2. slices' = [i \in Slot |-> slices'[i]] /\ pc # "fill"
    BY Zenon, <1>4, <1>7, <1>12
  <2> QED
    BY Zenon, <1>4, <2>1, <2>2, SlotsWritten
<1>14. FrameInv'
  <2>1. lo # last
    BY <1>5, <1>6
  <2>2. header => slices'[range.start] = Header
    BY <1>6, <1>7, <1>10, <1>11, <1>12, <2>1, Zenon
  <2>3. trailer => slices'[range.end + 1] = Trailer
    BY <1>6, <1>7, <1>12, Zenon
  <2>4. /\ frame'.header # <<>> <=> header
        /\ frame'.trailer # <<>> <=> trailer
    BY <1>8
  <2>5. ~frame'.panicked
    BY <1>8, <1>9, Zenon
  <2>6. /\ frame'.start = IF header THEN range.start ELSE range.start + 1
        /\ frame'.end = IF trailer THEN range.end + 2 ELSE range.end + 1
    BY Zenon, <1>6, <1>8
  <2> QED
    BY Zenon, <1>1, <1>4, <1>8, <2>2, <2>3, <2>4, <2>5, <2>6 DEF FrameInv
<1> QED
  BY Zenon, <1>13, <1>14 DEF VectoredInv

\* The drop of a frame gives them back.
LEMMA DropFrameInv ==
    ASSUME VectoredInv, DropFrame
    PROVE  VectoredInv'
<1> DEFINE header == frame.header # <<>>
           trailer == frame.trailer # <<>>
           lo == frame.start
           last == frame.end - 1
           first == IF header THEN [slices EXCEPT ![lo] = frame.header[1]]
                              ELSE slices
           both == IF trailer THEN [first EXCEPT ![last] = frame.trailer[1]]
                              ELSE first
<1>1. /\ frame # NoFrame /\ slices' = both /\ frame' = NoFrame
      /\ UNCHANGED <<capacity, owned, pc, range>>
  BY Zenon DEF DropFrame
<1>2. /\ pc = "slice"
      /\ header => lo = range.start
      /\ trailer => frame.end = range.end + 2
  BY Zenon, <1>1 DEF VectoredInv, FrameInv
<1>3. /\ range.end \in Nat /\ range.start \in Slot /\ range.end + 1 \in Slot
      /\ (range.end + 2) - 1 = range.end + 1
  BY <1>2, FreeSlots
<1>4. trailer => last = range.end + 1
  BY Zenon, <1>2, <1>3
<1>5. slices = [i \in Slot |-> slices[i]]
  BY Zenon DEF VectoredInv, TypeOK
<1> HIDE DEF lo, last
<1>6. /\ first = [i \in Slot |-> first[i]]
      /\ \A i \in Slot : i # range.start => first[i] = slices[i]
  <2>1. CASE header
    BY <1>2, <1>3, <1>5, <2>1, MayWrite, Zenon
  <2>2. CASE ~header
    BY <1>5, <2>2, Zenon
  <2> QED
    BY Zenon, <2>1, <2>2
<1> HIDE DEF first
<1>7. /\ both = [i \in Slot |-> both[i]]
      /\ \A i \in Slot : i # range.end + 1 => both[i] = first[i]
  <2>1. CASE trailer
    BY <1>3, <1>4, <1>6, <2>1, MayWrite, Zenon
  <2>2. CASE ~trailer
    BY <1>6, <2>2, Zenon
  <2> QED
    BY Zenon, <2>1, <2>2
<1> HIDE DEF both
<1>8. TypeOK' /\ OwnersInv'
  <2>1. \A i \in Slot : i # range.start /\ i # range.end + 1
                          => slices'[i] = slices[i]
    BY <1>1, <1>6, <1>7, Zenon
  <2>2. slices' = [i \in Slot |-> slices'[i]] /\ pc # "fill"
    BY Zenon, <1>1, <1>2, <1>7
  <2> QED
    BY Zenon, <1>1, <2>1, <2>2, SlotsWritten
<1> QED
  BY Zenon, <1>1, <1>8 DEF VectoredInv, FrameInv

\* Every step of a buffer whose frames take the whole slice keeps the invariant.
LEMMA NextInv ==
    ASSUME ~Bounded
    PROVE  VectoredInv /\ [Next]_vars => VectoredInv'
<1> SUFFICES ASSUME VectoredInv, [Next]_vars PROVE VectoredInv'
  BY Zenon
<1>1. CASE UNCHANGED vars
  BY Zenon, <1>1 DEF vars, VectoredInv, TypeOK, OwnersInv, RangeInv, FrameInv, Filled
<1>2. CASE \E index \in Cell, value \in Blob : Insert(index, value)
  BY Zenon, <1>2, InsertInv
<1>3. CASE \E capa \in Capacities : Resize(capa)
  BY Zenon, <1>3, ResizeInv
<1>4. CASE TakeSlice \/ SliceAgain \/ IntoIter \/ Requeue
  BY Zenon, <1>4, LendInv
<1>5. CASE NextValue \/ Release
  BY Zenon, <1>5, RemoveInv
<1>6. CASE \E bounds \in FrameRanges(range.end - range.start),
              header \in BOOLEAN, trailer \in BOOLEAN :
                 Frame(bounds, header, trailer)
  BY Zenon, <1>6, FrameStep
<1>7. CASE DropFrame
  BY Zenon, <1>7, DropFrameInv
<1> QED
  BY Zenon, <1>1, <1>2, <1>3, <1>4, <1>5, <1>6, <1>7 DEF Next

\* The life of a vectored buffer of any capacities and values, its frames taken
\* of the whole slice: the values are those of the range lent or due, each with
\* its io-slice, and a frame only takes the slots of empty cells.
THEOREM VectoredInvariance ==
    ASSUME ~Bounded
    PROVE  Spec => []VectoredInv
<1>1. Init => VectoredInv
  BY Zenon, InitInv
<1>2. VectoredInv /\ [Next]_vars => VectoredInv'
  BY Zenon, NextInv
<1> QED
  BY <1>1, <1>2, PTL DEF Spec

\* What a slice lends is the io-slices of the values the cells own, whatever
\* frames, drains and requeues came before.
THEOREM SlicesFollow ==
    ASSUME ~Bounded
    PROVE  Spec => []SlicesFollowOwners
<1>1. VectoredInv => SlicesFollowOwners
  <2> SUFFICES ASSUME VectoredInv, pc = "slice",
                      NEW i \in range.start..(range.end - 1)
               PROVE  owned[i] \in Blob /\ slices[i + 1] = owned[i]
    BY Zenon DEF SlicesFollowOwners
  <2>1. i \in Filled
    BY Zenon DEF VectoredInv, OwnersInv, RangeInv
  <2> QED
    BY Zenon, <2>1 DEF VectoredInv, OwnersInv, RangeInv, TypeOK, Filled
<1>2. Spec => []VectoredInv
  BY Zenon, VectoredInvariance
<1> QED
  BY <1>1, <1>2, PTL

\* A frame of the whole slice selects all of its items.
LEMMA SelectedAll ==
    ASSUME NEW n \in Nat
    PROVE  /\ Selected(<<Unbounded, Unbounded>>, n) = 0..(n - 1)
           /\ Cardinality(0..(n - 1)) = n
<1>1. <<Unbounded, Unbounded>>[1].kind = "Unbounded"
      /\ <<Unbounded, Unbounded>>[2].kind = "Unbounded"
  BY Zenon DEF Unbounded, Bound
<1>2. Selected(<<Unbounded, Unbounded>>, n) = 0..(n - 1)
  BY Zenon, <1>1 DEF Selected
<1>3. Cardinality(0..(n - 1)) = n
  BY FS_Interval
<1> QED
  BY Zenon, <1>2, <1>3

\* The sequence of x when b holds, the empty one otherwise, and its length.
One(b, x) == IF b THEN <<x>> ELSE <<>>
Count(b) == IF b THEN 1 ELSE 0

\* A header or a trailer is a sequence of one io-slice, or of none.
LEMMA OneOrNone ==
    ASSUME NEW S, NEW x \in S, NEW b \in BOOLEAN
    PROVE  /\ IsSeq(One(b, x), S, Count(b))
           /\ \A k \in 1..Count(b) : b /\ k = 1 /\ One(b, x)[k] = x
<1>1. CASE b
  <2>1. One(b, x) = <<x>> /\ Count(b) = 1
    BY Zenon, <1>1 DEF One, Count
  <2>2. /\ <<x>> \in Seq(S) /\ Len(<<x>>) = 1 /\ 1 \in Nat
        /\ \A k \in 1..1 : k = 1 /\ <<x>>[k] = x
    OBVIOUS
  <2> QED
    BY Zenon, <1>1, <2>1, <2>2 DEF IsSeq
<1>2. CASE ~b
  <2>1. One(b, x) = <<>> /\ Count(b) = 0
    BY Zenon, <1>2 DEF One, Count
  <2> QED
    BY <2>1 DEF IsSeq
<1> QED
  BY Zenon, <1>1, <1>2

\* A frame of the whole slice is its header, the io-slices of the values of the
\* slice, and its trailer, in order, and taking it never panics.
THEOREM FrameExact ==
    ASSUME ~Bounded
    PROVE  Spec => []FrameIsExact
<1>1. VectoredInv => FrameIsExact
  <2> DEFINE n == range.end - range.start
             selected == Selected(frame.range, range.end - range.start)
             first == IF selected = {} THEN 0
                      ELSE range.start + (CHOOSE i \in selected :
                                             \A j \in selected : i <= j)
             items == [i \in 1..Cardinality(selected) |-> owned[first + i - 1]]
             header == frame.header # <<>>
             trailer == frame.trailer # <<>>
             head == IF header THEN <<Header>> ELSE <<>>
             tail == IF trailer THEN <<Trailer>> ELSE <<>>
             s == [i \in 1..(frame.end - frame.start) |->
                      slices[frame.start + i - 1]]
             S == {slices[i] : i \in Slot} \cup {Header, Trailer} \cup Blob
             m == IF header THEN 1 ELSE 0
             p == IF trailer THEN 1 ELSE 0
  <2> SUFFICES ASSUME VectoredInv, frame # NoFrame
               PROVE  ~frame.panicked /\ s = head \o items \o tail
    BY Zenon DEF FrameIsExact
  <2>1. /\ pc = "slice" /\ ~frame.panicked
        /\ frame.range = <<Unbounded, Unbounded>>
        /\ frame.start = IF header THEN range.start ELSE range.start + 1
        /\ frame.end = IF trailer THEN range.end + 2 ELSE range.end + 1
        /\ header => slices[range.start] = Header
        /\ trailer => slices[range.end + 1] = Trailer
    BY Zenon DEF VectoredInv, FrameInv
  <2>2. /\ range.start \in Nat /\ range.end \in Nat /\ range.start <= range.end
        /\ range.start \in Slot /\ range.end + 1 \in Slot
    BY Zenon, <2>1, FreeSlots
  <2>3. n \in Nat /\ m \in {0, 1} /\ p \in {0, 1}
    BY <2>2
  <2>4. selected = 0..(n - 1) /\ Cardinality(selected) = n
    BY <2>1, <2>3, SelectedAll, Zenon
  <2>5. n > 0 => first = range.start
    <3>1. SUFFICES ASSUME n > 0 PROVE first = range.start
      BY Zenon
    <3>2. 0 \in selected /\ \A j \in selected : 0 <= j /\ j \in Nat
      BY <2>3, <2>4, <3>1
    <3> HIDE DEF selected
    <3>3. (CHOOSE i \in selected : \A j \in selected : i <= j) = 0
      BY <3>2
    <3> QED
      BY <2>2, <3>2, <3>3
  <2>6. \A k \in 1..n : items[k] = owned[range.start + k - 1]
    <3> HIDE DEF first, selected
    <3> QED
      BY <2>3, <2>4, <2>5
  <2>7. items = [k \in 1..n |-> items[k]]
    BY <2>4
  <2> HIDE DEF items, selected, first
  <2>a. \A k \in 1..n : items[k] \in Blob /\ slices[range.start + k] = items[k]
    <3>1. SUFFICES ASSUME NEW k \in 1..n
                   PROVE  items[k] \in Blob /\ slices[range.start + k] = items[k]
      BY Zenon
    <3>2. /\ range.start + k - 1 \in range.start..(range.end - 1)
          /\ (range.start + k - 1) + 1 = range.start + k
      BY <2>2, <2>3
    <3>3. range.start + k - 1 \in Filled
      BY Zenon, <2>1, <3>2 DEF VectoredInv, OwnersInv, RangeInv
    <3> QED
      BY Zenon, <2>6, <3>2, <3>3 DEF VectoredInv, OwnersInv, RangeInv, TypeOK, Filled
  <2>8. /\ frame.start = range.start + 1 - m
        /\ frame.end - frame.start = (m + n) + p
    BY <2>1, <2>2
  <2>9. /\ s = [i \in 1..((m + n) + p) |-> slices[range.start - m + i]]
        /\ \A i \in 1..((m + n) + p) : range.start - m + i \in Slot
    <3>1. \A i \in 1..((m + n) + p) : frame.start + i - 1 = range.start - m + i
      BY <2>2, <2>3, <2>8
    <3>2. s = [i \in 1..((m + n) + p) |-> slices[range.start - m + i]]
      BY Zenon, <2>8, <3>1
    <3>3. \A i \in 1..((m + n) + p) : range.start - m + i \in Slot
      <4>1. MaxCapacity \in Nat
        BY Zenon, WriteVectoredAssumption
      <4> HIDE DEF m, p
      <4> QED
        BY <2>2, <2>3, <4>1 DEF Slot
    <3> QED
      BY Zenon, <3>2, <3>3
  <2>10. IsSeq(head, S, m) /\ \A k \in 1..m : header /\ k = 1 /\ head[k] = Header
    <3>1. Header \in S /\ header \in BOOLEAN
      OBVIOUS
    <3>2. m = Count(header) /\ head = One(header, Header)
      BY Zenon DEF Count, One
    <3> HIDE DEF S, header, head, m
    <3> QED
      BY Zenon, <3>1, <3>2, OneOrNone
  <2>11. IsSeq(tail, S, p) /\ \A k \in 1..p : trailer /\ k = 1 /\ tail[k] = Trailer
    <3>1. Trailer \in S /\ trailer \in BOOLEAN
      OBVIOUS
    <3>2. p = Count(trailer) /\ tail = One(trailer, Trailer)
      BY Zenon DEF Count, One
    <3> HIDE DEF S, trailer, tail, p
    <3> QED
      BY Zenon, <3>1, <3>2, OneOrNone
  <2>12. IsSeq(items, S, n)
    <3>1. \A k \in 1..n : items[k] \in S
      BY Zenon, <2>a
    <3> HIDE DEF S, n
    <3> QED
      BY <2>3, <2>7, <3>1 DEF IsSeq
  <2>13. \A i \in 1..((m + n) + p) : slices[range.start - m + i] \in S
    BY Zenon, <2>9
  <2> HIDE DEF S, m, p, n, head, tail, header, trailer, s
  <2>14. (m + n) + p \in Nat
    BY <2>3
  <2>15. IsSeq(s, S, (m + n) + p)
    <3> DEFINE q == (m + n) + p
    <3>1. q \in Nat /\ s = [i \in 1..q |-> slices[range.start - m + i]]
          /\ \A i \in 1..q : slices[range.start - m + i] \in S
      BY Zenon, <2>9, <2>13, <2>14
    <3> HIDE DEF q
    <3>2. IsSeq(s, S, q)
      BY <3>1 DEF IsSeq
    <3> QED
      BY Zenon, <3>2 DEF q
  <2>16. \A i \in 1..((m + n) + p) : s[i] = slices[range.start - m + i]
    BY <2>9, Zenon
  <2>17. Holds(s, 0, head, m)
    <3>1. SUFFICES ASSUME NEW k \in 1..m PROVE s[0 + k] = head[k]
      BY Zenon DEF Holds
    <3>2. header /\ k = 1 /\ head[k] = Header
      BY Zenon, <2>10
    <3>3. m = 1
      BY <2>3
    <3>4. 0 + k \in 1..((m + n) + p) /\ range.start - m + (0 + k) = range.start
      BY <2>2, <2>3, <3>2, <3>3
    <3> QED
      BY <2>1, <2>16, <3>2, <3>4, Zenon
  <2>18. Holds(s, m, items, n)
    <3>1. SUFFICES ASSUME NEW k \in 1..n PROVE s[m + k] = items[k]
      BY Zenon DEF Holds
    <3>2. m + k \in 1..((m + n) + p) /\ range.start - m + (m + k) = range.start + k
      BY <2>2, <2>3
    <3> QED
      BY <2>a, <2>16, <3>2, Zenon
  <2>19. Holds(s, m + n, tail, p)
    <3>1. SUFFICES ASSUME NEW k \in 1..p PROVE s[(m + n) + k] = tail[k]
      BY Zenon DEF Holds
    <3>2. trailer /\ k = 1 /\ tail[k] = Trailer
      BY Zenon, <2>11
    <3>3. /\ (m + n) + k \in 1..((m + n) + p)
          /\ range.start - m + ((m + n) + k) = range.end + 1
      BY <2>2, <2>3, <3>2 DEF n
    <3> QED
      BY <2>1, <2>16, <3>2, <3>3, Zenon
  <2>20. s = head \o items \o tail
    BY <2>10, <2>11, <2>12, <2>15, <2>17, <2>18, <2>19, ThreeParts, Zenon
  <2> QED
    BY <2>1, <2>20, Zenon
<1>2. Spec => []VectoredInv
  BY Zenon, VectoredInvariance
<1> QED
  BY <1>1, <1>2, PTL

-----------------------------------------------------------------------------
(* Sums of sizes.  The fold of BytesOf is a recursive function over the    *)
(* subsets of a set; what it returns is proved by looking at a smallest    *)
(* subset for which it would not.                                          *)

\* The element the fold takes out of a set.
Pick(s) == CHOOSE x \in s : TRUE
\* What it adds up for a set, from the sums of the smaller ones.
Added(g, o, s) == IF s = {} THEN 0 ELSE SizeOf[o[Pick(s)]] + g[s \ {Pick(s)}]
\* g is the sum of the sizes for all subsets of S.
Sums(g, o, S) == g = [s \in SUBSET S |-> Added(g, o, s)]

\* The bytes of a set of cells are what such a function gives it.
LEMMA BytesIs ==
    ASSUME NEW o, NEW S
    PROVE  BytesOf(o, S) = (CHOOSE g : Sums(g, o, S))[S]
  BY DEF BytesOf, MapThenSumSet, MapThenFoldSet, Sums, Added, Pick

\* Induction over the subsets of a finite set: among those that violate a
\* statement one has no smaller one.
LEMMA SmallestSubset ==
    ASSUME NEW S, IsFiniteSet(S), NEW B, B \subseteq SUBSET S, B # {}
    PROVE  \E s \in B : \A r \in SUBSET s : r # s => r \notin B
<1>1. IsWellFoundedOn(StrictSubsetOrdering(S), FiniteSubsetsOf(S))
  BY FS_StrictSubsetOrderingWellFounded
<1>2. B \subseteq FiniteSubsetsOf(S)
  BY FS_Subset DEF FiniteSubsetsOf
<1>3. PICK s \in B : \A r \in B : ~(<<r, s>> \in StrictSubsetOrdering(S))
  BY <1>1, <1>2, WFMin
<1> QED
  BY <1>3 DEF StrictSubsetOrdering

\* A set without its picked element is smaller.
LEMMA Picked ==
    ASSUME NEW s, s # {}
    PROVE  /\ Pick(s) \in s
           /\ s \ {Pick(s)} \in SUBSET s /\ s \ {Pick(s)} # s
  BY Zenon DEF Pick

\* What such a function gives a subset.
LEMMA SumsAt ==
    ASSUME NEW g, NEW o, NEW S, Sums(g, o, S), NEW s \in SUBSET S
    PROVE  g[s] = Added(g, o, s)
  BY Zenon DEF Sums

\* It depends on the sizes in the set only.
LEMMA SumsAgree ==
    ASSUME NEW S, IsFiniteSet(S), NEW o, NEW n,
           \A i \in S : SizeOf[o[i]] = SizeOf[n[i]],
           NEW T, NEW U, NEW g, NEW h, Sums(g, o, T), Sums(h, n, U),
           S \subseteq T, S \subseteq U
    PROVE  \A s \in SUBSET S : g[s] = h[s]
<1> DEFINE B == {s \in SUBSET S : g[s] # h[s]}
<1>1. SUFFICES ASSUME B # {} PROVE FALSE
  BY Zenon
<1>2. B \subseteq SUBSET S
  BY Zenon
<1>3. PICK s \in B : \A r \in SUBSET s : r # s => r \notin B
  <2> HIDE DEF B
  <2> QED
    BY <1>1, <1>2, SmallestSubset
<1>4. s \in SUBSET S /\ s \in SUBSET T /\ s \in SUBSET U /\ g[s] # h[s]
  BY Zenon
<1>5. g[s] = Added(g, o, s) /\ h[s] = Added(h, n, s)
  <2> HIDE DEF B
  <2> QED
    BY <1>4, SumsAt
<1>6. s # {}
  BY Zenon, <1>4, <1>5 DEF Added
<1>7. g[s \ {Pick(s)}] = h[s \ {Pick(s)}]
  BY Zenon, <1>3, <1>4, <1>6, Picked
<1>8. SizeOf[o[Pick(s)]] = SizeOf[n[Pick(s)]]
  BY Zenon, <1>4, <1>6, Picked
<1> QED
  BY Zenon, <1>4, <1>5, <1>6, <1>7, <1>8 DEF Added

\* Those of a set and of a larger one agree.
LEMMA SumsUnique ==
    ASSUME NEW S, IsFiniteSet(S), NEW o, NEW T, S \subseteq T,
           NEW g, NEW h, Sums(g, o, S), Sums(h, o, T)
    PROVE  \A s \in SUBSET S : g[s] = h[s]
<1>1. S \subseteq S /\ \A i \in S : SizeOf[o[i]] = SizeOf[o[i]]
  OBVIOUS
<1> QED
  BY <1>1, SumsAgree

\* There is one, which is what makes the fold well-defined.
LEMMA SumsExist ==
    ASSUME NEW S, IsFiniteSet(S), NEW o
    PROVE  \E g : Sums(g, o, S)
<1> DEFINE B == {s \in SUBSET S : ~ \E g : Sums(g, o, s)}
           G(s) == (CHOOSE g : Sums(g, o, s))[s]
           v == [r \in SUBSET S |-> G(r)]
<1>1. SUFFICES ASSUME B # {} PROVE FALSE
  BY Zenon
<1>2. B \subseteq SUBSET S
  BY Zenon
<1>3. PICK s \in B : \A r \in SUBSET s : r # s => r \notin B
  <2> HIDE DEF B
  <2> QED
    BY <1>1, <1>2, SmallestSubset
<1>4. s \in SUBSET S /\ ~ \E g : Sums(g, o, s)
  BY Zenon
<1>5. ASSUME NEW r \in SUBSET s, r # s
      PROVE  Sums(CHOOSE g : Sums(g, o, r), o, r) /\ IsFiniteSet(r)
  <2>1. \E g : Sums(g, o, r)
    BY Zenon, <1>3, <1>4, <1>5
  <2> QED
    BY Zenon, <2>1, <1>4, <1>5, FS_Subset
<1>6. ASSUME NEW r \in SUBSET s, r # s
      PROVE  v[r] = Added(v, o, r)
  <2> DEFINE g == CHOOSE g : Sums(g, o, r)
             q == r \ {Pick(r)}
             h == CHOOSE h : Sums(h, o, q)
  <2>1. Sums(g, o, r)
    BY Zenon, <1>5, <1>6
  <2>2. v[r] = g[r]
    BY Zenon, <1>4
  <2>3. g[r] = Added(g, o, r)
    <3> HIDE DEF g
    <3> QED
      BY Zenon, <2>1, SumsAt
  <2>4. CASE r = {}
    BY Zenon, <2>2, <2>3, <2>4 DEF Added
  <2>5. CASE r # {}
    <3>1. q \in SUBSET s /\ q # s /\ q \subseteq r /\ q \in SUBSET S
      BY Zenon, <2>5, Picked, <1>4
    <3>2. Sums(h, o, q) /\ IsFiniteSet(q)
      BY Zenon, <3>1, <1>5
    <3>3. v[q] = h[q]
      BY Zenon, <3>1
    <3> HIDE DEF g, h, v
    <3>4. \A p \in SUBSET q : g[p] = h[p]
      <4> HIDE DEF q
      <4> QED
        BY <3>1, <3>2, <2>1, SumsAgree
    <3>5. g[q] = h[q]
      BY Zenon, <3>4
    <3> QED
      BY Zenon, <3>3, <3>5, <2>2, <2>3, <2>5 DEF Added
  <2> QED
    BY Zenon, <2>4, <2>5
<1> DEFINE u == [r \in SUBSET s |-> Added(v, o, r)]
<1>7. ASSUME NEW r \in SUBSET s
      PROVE  Added(v, o, r) = Added(u, o, r)
  <2> HIDE DEF v
  <2>1. CASE r = {}
    BY Zenon, <2>1 DEF Added
  <2>2. CASE r # {}
    <3> DEFINE q == r \ {Pick(r)}
    <3>1. q \in SUBSET s /\ q # s
      BY Zenon, <2>2, Picked
    <3>2. u[q] = v[q]
      BY Zenon, <3>1, <1>6
    <3> HIDE DEF u
    <3> QED
      BY Zenon, <3>2, <2>2 DEF Added
  <2> QED
    BY Zenon, <2>1, <2>2
<1>8. Sums(u, o, s)
  <2> HIDE DEF v
  <2>1. u = [r \in SUBSET s |-> Added(v, o, r)]
    BY Zenon
  <2> HIDE DEF u
  <2> QED
    BY Zenon, <1>7, <2>1 DEF Sums
<1> QED
  BY Zenon, <1>4, <1>8

\* One function gives the bytes of all the subsets.
LEMMA BytesAre ==
    ASSUME NEW S, IsFiniteSet(S), NEW o
    PROVE  \E g : Sums(g, o, S) /\ \A s \in SUBSET S : BytesOf(o, s) = g[s]
<1>1. PICK g : Sums(g, o, S)
  BY Zenon, SumsExist
<1>2. ASSUME NEW s \in SUBSET S
      PROVE  BytesOf(o, s) = g[s]
  <2> DEFINE h == CHOOSE h : Sums(h, o, s)
  <2>1. IsFiniteSet(s) /\ s \subseteq S
    BY Zenon, FS_Subset
  <2>2. Sums(h, o, s)
    BY Zenon, <2>1, SumsExist
  <2>3. BytesOf(o, s) = h[s]
    BY Zenon, BytesIs
  <2> HIDE DEF h
  <2>4. \A r \in SUBSET s : h[r] = g[r]
    BY <1>1, <2>1, <2>2, SumsUnique
  <2> QED
    BY Zenon, <2>3, <2>4
<1> QED
  BY Zenon, <1>1, <1>2

\* Nothing has no bytes, and a set those of the element picked and of the rest.
LEMMA BytesPick ==
    ASSUME NEW S, IsFiniteSet(S), NEW o
    PROVE  BytesOf(o, S) = IF S = {} THEN 0
                           ELSE SizeOf[o[Pick(S)]] + BytesOf(o, S \ {Pick(S)})
<1>1. PICK g : Sums(g, o, S) /\ \A s \in SUBSET S : BytesOf(o, s) = g[s]
  BY BytesAre
<1>2. g[S] = Added(g, o, S)
  BY Zenon, <1>1, SumsAt
<1>3. BytesOf(o, S) = g[S] /\ BytesOf(o, S \ {Pick(S)}) = g[S \ {Pick(S)}]
  BY Zenon, <1>1
<1> QED
  BY Zenon, <1>2, <1>3 DEF Added

\* Cells that own values of the same sizes have the same bytes.
LEMMA BytesSame ==
    ASSUME NEW S, IsFiniteSet(S), NEW o, NEW n,
           \A i \in S : SizeOf[o[i]] = SizeOf[n[i]]
    PROVE  BytesOf(o, S) = BytesOf(n, S)
<1>1. PICK g : Sums(g, o, S) /\ \A s \in SUBSET S : BytesOf(o, s) = g[s]
  BY BytesAre
<1>2. PICK h : Sums(h, n, S) /\ \A s \in SUBSET S : BytesOf(n, s) = h[s]
  BY BytesAre
<1>3. \A s \in SUBSET S : g[s] = h[s]
  BY <1>1, <1>2, SumsAgree
<1> QED
  BY Zenon, <1>1, <1>2, <1>3

\* The cells of S own values, which have sizes.
Sized(o, S) == \A i \in S : SizeOf[o[i]] \in Nat

\* Bytes are counted.
LEMMA BytesNat ==
    ASSUME NEW S, IsFiniteSet(S), NEW o, Sized(o, S)
    PROVE  \A s \in SUBSET S : BytesOf(o, s) \in Nat
<1> DEFINE B == {s \in SUBSET S : BytesOf(o, s) \notin Nat}
<1>1. SUFFICES ASSUME B # {} PROVE FALSE
  BY Zenon
<1>2. B \subseteq SUBSET S
  BY Zenon
<1>3. PICK s \in B : \A r \in SUBSET s : r # s => r \notin B
  <2> HIDE DEF B
  <2> QED
    BY <1>1, <1>2, SmallestSubset
<1>4. s \in SUBSET S /\ BytesOf(o, s) \notin Nat /\ IsFiniteSet(s)
  BY Zenon, FS_Subset
<1>5. BytesOf(o, s) = IF s = {} THEN 0
                      ELSE SizeOf[o[Pick(s)]] + BytesOf(o, s \ {Pick(s)})
  BY Zenon, <1>4, BytesPick
<1>6. CASE s = {}
  BY <1>4, <1>5, <1>6
<1>7. CASE s # {}
  <2>1. BytesOf(o, s \ {Pick(s)}) \in Nat
    BY Zenon, <1>3, <1>4, <1>7, Picked
  <2>2. SizeOf[o[Pick(s)]] \in Nat
    BY Zenon, <1>4, <1>7, Picked DEF Sized
  <2> QED
    BY <1>4, <1>5, <1>7, <2>1, <2>2
<1> QED
  BY Zenon, <1>6, <1>7

\* Any element may be taken out first.
LEMMA BytesWithout ==
    ASSUME NEW S, IsFiniteSet(S), NEW o, Sized(o, S), NEW k \in S
    PROVE  BytesOf(o, S) = SizeOf[o[k]] + BytesOf(o, S \ {k})
<1> DEFINE Out(s, i) == BytesOf(o, s) = SizeOf[o[i]] + BytesOf(o, s \ {i})
           B == {s \in SUBSET S : \E i \in s : ~Out(s, i)}
<1>1. SUFFICES ASSUME B # {} PROVE FALSE
  <2>1. S \in SUBSET S
    BY Zenon
  <2> QED
    BY Zenon, <2>1
<1>2. B \subseteq SUBSET S
  BY Zenon
<1>3. PICK s \in B : \A r \in SUBSET s : r # s => r \notin B
  <2> HIDE DEF B
  <2> QED
    BY <1>1, <1>2, SmallestSubset
<1>4. s \in SUBSET S /\ IsFiniteSet(s)
  BY Zenon, FS_Subset
<1>5. PICK i \in s : ~Out(s, i)
  BY Zenon
<1> DEFINE j == Pick(s)
<1>6. j \in s
  BY Zenon, <1>5, Picked
<1> HIDE DEF j
<1>7. BytesOf(o, s) = SizeOf[o[j]] + BytesOf(o, s \ {j})
  BY Zenon, <1>4, <1>5, BytesPick DEF j
<1>8. i # j
  BY Zenon, <1>5, <1>7
<1>9. ASSUME NEW e \in s
      PROVE  s \ {e} \in SUBSET S /\ s \ {e} \notin B
  BY Zenon, <1>3, <1>4
<1>10. BytesOf(o, s \ {j}) = SizeOf[o[i]] + BytesOf(o, (s \ {j}) \ {i})
  <2>1. i \in s \ {j}
    BY Zenon, <1>8
  <2> QED
    BY Zenon, <2>1, <1>6, <1>9
<1>11. BytesOf(o, s \ {i}) = SizeOf[o[j]] + BytesOf(o, (s \ {i}) \ {j})
  <2>1. j \in s \ {i}
    BY Zenon, <1>6, <1>8
  <2> QED
    BY Zenon, <2>1, <1>5, <1>9
<1>12. (s \ {i}) \ {j} = (s \ {j}) \ {i} /\ (s \ {j}) \ {i} \in SUBSET S
  BY Zenon, <1>4
<1>13. /\ BytesOf(o, (s \ {j}) \ {i}) \in Nat
       /\ SizeOf[o[i]] \in Nat /\ SizeOf[o[j]] \in Nat
  BY Zenon, <1>4, <1>6, <1>12, BytesNat DEF Sized
<1> DEFINE a == SizeOf[o[i]]
           b == SizeOf[o[j]]
           c == BytesOf(o, (s \ {j}) \ {i})
<1>14. BytesOf(o, s) = b + (a + c) /\ BytesOf(o, s \ {i}) = b + c
  BY Zenon, <1>7, <1>10, <1>11, <1>12
<1>15. a \in Nat /\ b \in Nat /\ c \in Nat
  BY Zenon, <1>13
<1>16. b + (a + c) = a + (b + c)
  <2> HIDE DEF a, b, c
  <2> QED
    BY <1>15
<1> QED
  BY Zenon, <1>5, <1>14, <1>16

-----------------------------------------------------------------------------
(* Counters that wrap.                                                     *)

\* Quotient and remainder.
LEMMA DivMod ==
    ASSUME NEW M \in Nat, M > 0, NEW a \in Int
    PROVE  /\ a \div M \in Int /\ a % M \in Int /\ 0 <= a % M /\ a % M < M
           /\ a = M * (a \div M) + (a % M)
  OBVIOUS

\* A multiple is at least once the number.
LEMMA Times ==
    ASSUME NEW M \in Nat, M > 0, NEW k \in Int, k >= 1
    PROVE  M * k >= M
  OBVIOUS

\* The remainder is unique.
LEMMA Euclid ==
    ASSUME NEW M \in Nat, M > 0,
           NEW q \in Int, NEW r \in Int, NEW p \in Int, NEW s \in Int,
           0 <= r, r < M, 0 <= s, s < M, M * q + r = M * p + s
    PROVE  r = s
<1>1. M * (q - p) = s - r /\ M * (p - q) = r - s
  OBVIOUS
<1>2. ~(q - p >= 1)
  BY <1>1, Times
<1>3. ~(p - q >= 1)
  BY <1>1, Times
<1>4. p = q
  BY <1>2, <1>3
<1> QED
  BY <1>4

\* Additions may wrap one by one or all at once.
LEMMA ModAdd ==
    ASSUME NEW M \in Nat, M > 0, NEW a \in Int, NEW b \in Int
    PROVE  ((a % M) + b) % M = (a + b) % M
<1> DEFINE r == a % M
           q == a \div M
           p == (r + b) \div M
           t == (a + b) \div M
<1>1. r \in Int /\ q \in Int /\ a = M * q + r
  BY DivMod
<1>2. /\ p \in Int /\ (r + b) % M \in Int /\ 0 <= (r + b) % M /\ (r + b) % M < M
      /\ r + b = M * p + ((r + b) % M)
  BY <1>1, DivMod
<1>3. /\ t \in Int /\ (a + b) % M \in Int /\ 0 <= (a + b) % M /\ (a + b) % M < M
      /\ a + b = M * t + ((a + b) % M)
  BY <1>1, DivMod
<1> HIDE DEF r, q, p, t
<1>4. q + p \in Int /\ M * (q + p) = M * q + M * p
  BY <1>1, <1>2
<1>5. M * (q + p) + ((r + b) % M) = M * t + ((a + b) % M)
  BY <1>1, <1>2, <1>3, <1>4
<1>6. (r + b) % M = (a + b) % M
  BY <1>2, <1>3, <1>4, <1>5, Euclid
<1> QED
  BY <1>6 DEF r

-----------------------------------------------------------------------------
(* The counter of a vectored buffer, its frames bounded or not.            *)

\* The cells with a value are finitely many, and each value has a size.
LEMMA FilledFacts ==
    ASSUME TypeOK
    PROVE  /\ IsFiniteSet(Filled) /\ Sized(owned, Filled)
           /\ Bytes(Filled) \in Nat /\ Modulus \in Nat /\ Modulus > 0
<1>1. MaxCapacity \in Nat /\ SizeOf \in [Blob -> Nat] /\ Modulus \in Nat \ {0}
  BY Zenon, WriteVectoredAssumption
<1>2. IsFiniteSet(Cell)
  <2>1. 0 \in Int /\ MaxCapacity - 1 \in Int
    BY <1>1
  <2> QED
    BY Zenon, <2>1, FS_Interval DEF Cell
<1>3. IsFiniteSet(Filled)
  BY Zenon, <1>2, FS_Subset DEF Filled
<1>4. Sized(owned, Filled)
  BY Zenon, <1>1 DEF TypeOK, Filled, Sized
<1>5. BytesOf(owned, Filled) \in Nat
  BY Zenon, <1>3, <1>4, BytesNat
<1>6. Modulus \in Nat /\ Modulus > 0
  BY <1>1
<1> QED
  BY Zenon, <1>3, <1>4, <1>5, <1>6 DEF Bytes

\* A step of the handles leaves values and counter alone.
LEMMA SameSize ==
    ASSUME SizeInv, TypeOK', RangeInv', UNCHANGED <<owned, total_size, discarded>>,
           pc' = "slice" => view_size' = total_size'
    PROVE  SizeInv'
<1>1. Bytes(Filled)' = Bytes(Filled)
  BY Zenon DEF Bytes, Filled
<1> QED
  BY Zenon, <1>1 DEF SizeInv

\* No cells, no bytes.
LEMMA NoBytes ==
    ASSUME NEW o
    PROVE  BytesOf(o, {}) = 0
<1>1. IsFiniteSet({})
  BY Zenon, FS_EmptySet
<1> QED
  BY Zenon, <1>1, BytesPick

\* insert adds the size of its value.
LEMMA InsertSize ==
    ASSUME SizeInv, NEW index \in Cell, NEW value \in Blob,
           Insert(index, value)
    PROVE  SizeInv'
<1>1. TypeOK /\ RangeInv
  BY Zenon DEF SizeInv
<1>2. /\ pc = "fill" /\ pc' = pc /\ capacity' = capacity /\ range' = range
      /\ slices' = [slices EXCEPT ![index + 1] = value]
      /\ owned' = [owned EXCEPT ![index] = value]
      /\ owned[index] = Uninit /\ discarded' = discarded
      /\ total_size' = (total_size + SizeOf[value]) % Modulus
  BY Zenon DEF Insert
<1>3. TypeOK'
  BY Zenon, <1>1, <1>2 DEF TypeOK
<1>4. Uninit \notin Blob /\ SizeOf[value] \in Nat
  BY Zenon, WriteVectoredAssumption
<1>5. /\ \A i \in Cell : i # index => owned'[i] = owned[i]
      /\ owned'[index] = value
  BY Zenon, <1>1, <1>2 DEF TypeOK
<1>6. Filled' \ {index} = Filled /\ index \in Filled'
  BY Zenon, <1>2, <1>4, <1>5 DEF Filled
<1>7. IsFiniteSet(Filled') /\ Sized(owned', Filled')
  <2>1. (IsFiniteSet(Filled) /\ Sized(owned, Filled))'
    BY <1>3, FilledFacts, PTL
  <2> QED
    BY Zenon, <2>1
<1>8. BytesOf(owned', Filled') = SizeOf[owned'[index]]
                                    + BytesOf(owned', Filled' \ {index})
  BY Zenon, <1>6, <1>7, BytesWithout
<1>9. BytesOf(owned', Filled) = BytesOf(owned, Filled)
  <2>1. IsFiniteSet(Filled)
    BY Zenon, <1>1, FilledFacts
  <2>2. \A i \in Filled : SizeOf[owned'[i]] = SizeOf[owned[i]]
    BY Zenon, <1>2, <1>5 DEF Filled
  <2> QED
    BY Zenon, <2>1, <2>2, BytesSame
<1> DEFINE bytes == BytesOf(owned, Filled)
           size == SizeOf[value]
<1>10. BytesOf(owned', Filled') = size + bytes
  BY Zenon, <1>5, <1>6, <1>8, <1>9
<1>11. bytes \in Nat /\ size \in Nat /\ Modulus \in Nat /\ Modulus > 0
  BY Zenon, <1>1, <1>4, FilledFacts DEF Bytes
<1>12. ~discarded => total_size = bytes % Modulus
  BY Zenon DEF SizeInv, Bytes
<1>13. ((bytes % Modulus) + size) % Modulus = (size + bytes) % Modulus
  <2> HIDE DEF bytes, size
  <2>1. bytes \in Int /\ size \in Int /\ bytes + size = size + bytes
    BY <1>11
  <2>2. ((bytes % Modulus) + size) % Modulus = (bytes + size) % Modulus
    BY Zenon, <2>1, <1>11, ModAdd
  <2> QED
    BY Zenon, <2>1, <2>2
<1>14. ~discarded' => total_size' = BytesOf(owned', Filled') % Modulus
  BY Zenon, <1>2, <1>10, <1>12, <1>13
<1>15. Bytes(Filled)' = BytesOf(owned', Filled')
  BY Zenon DEF Bytes
<1> QED
  BY Zenon, <1>2, <1>3, <1>14, <1>15 DEF SizeInv, RangeInv

\* next subtracts the size of the value it takes, the first of the range.
LEMMA NextValueSize ==
    ASSUME SizeInv, NextValue
    PROVE  SizeInv'
<1>1. TypeOK /\ RangeInv
  BY Zenon DEF SizeInv
<1> DEFINE first == range.start
           bytes == BytesOf(owned, Filled)
           size == SizeOf[owned[first]]
           rest == BytesOf(owned, Filled \ {first})
<1>2. /\ pc = "iter" /\ pc' = pc /\ range.start < range.end
      /\ UNCHANGED <<capacity, slices, discarded>>
      /\ owned' = [i \in Cell |-> IF i \in {first} THEN Uninit ELSE owned[i]]
      /\ range' = [range EXCEPT !.start = @ + 1]
      /\ total_size' = (total_size - BytesOf(owned, {first})) % Modulus
  BY Zenon DEF NextValue, Remove, Bytes
<1>3. first \in Nat /\ range.end \in Nat
  BY Zenon, <1>1, Room
<1>4. /\ range'.start = first + 1 /\ range'.end = range.end
      /\ range' \in [start : Nat, end : Nat]
  BY <1>1, <1>2 DEF TypeOK
<1>5. TypeOK'
  BY <1>1, <1>2, <1>3, <1>4 DEF TypeOK
<1>6. Filled' = Filled \ {first}
  BY Zenon, <1>2 DEF Filled
<1>7. Filled = first..(range.end - 1)
  BY Zenon, <1>1, <1>2 DEF RangeInv
<1>8. first \in Filled /\ Filled \ {first} = (range'.start)..(range'.end - 1)
  BY <1>2, <1>3, <1>4, <1>7
<1>9. RangeInv'
  BY Zenon, <1>6, <1>8 DEF RangeInv
<1>10. /\ IsFiniteSet(Filled) /\ Sized(owned, Filled)
       /\ Modulus \in Nat /\ Modulus > 0 /\ bytes \in Nat
  BY Zenon, <1>1, FilledFacts DEF Bytes
<1>11. bytes = size + rest /\ BytesOf(owned, {first}) = size + BytesOf(owned, {})
  <2>1. bytes = size + rest
    BY Zenon, <1>8, <1>10, BytesWithout
  <2>2. IsFiniteSet({first}) /\ Sized(owned, {first})
    BY Zenon, <1>8, <1>10, FS_Singleton DEF Sized
  <2>3. first \in {first} /\ {first} \ {first} = {}
    BY Zenon
  <2>4. BytesOf(owned, {first}) = size + BytesOf(owned, {first} \ {first})
    BY Zenon, <2>2, <2>3, BytesWithout
  <2> QED
    BY Zenon, <2>1, <2>3, <2>4
<1>12. BytesOf(owned, {}) = 0
  BY Zenon, NoBytes
<1>13. size \in Nat /\ rest \in Nat
  BY Zenon, <1>8, <1>10, BytesNat DEF Sized
<1>14. BytesOf(owned', Filled') = rest
  <2>1. IsFiniteSet(Filled \ {first})
    BY Zenon, <1>10, FS_RemoveElement
  <2>2. \A i \in Filled \ {first} : SizeOf[owned'[i]] = SizeOf[owned[i]]
    BY Zenon, <1>2 DEF Filled
  <2> QED
    BY Zenon, <1>6, <2>1, <2>2, BytesSame
<1>15. ~discarded => total_size = bytes % Modulus
  BY Zenon DEF SizeInv, Bytes
<1>16. ((bytes % Modulus) - BytesOf(owned, {first})) % Modulus = rest % Modulus
  <2> HIDE DEF bytes, size, rest, first
  <2>1. /\ bytes \in Int /\ -size \in Int /\ bytes + (-size) = rest
        /\ BytesOf(owned, {first}) = size
    BY <1>10, <1>11, <1>12, <1>13
  <2>2. ((bytes % Modulus) + (-size)) % Modulus = rest % Modulus
    BY Zenon, <1>10, <2>1, ModAdd
  <2>3. bytes % Modulus \in Int
    BY <1>10
  <2>4. (bytes % Modulus) - size = (bytes % Modulus) + (-size)
    BY <2>3, <1>13
  <2> QED
    BY Zenon, <2>1, <2>2, <2>4
<1>17. ~discarded' => total_size' = BytesOf(owned', Filled') % Modulus
  BY Zenon, <1>2, <1>14, <1>15, <1>16
<1>18. Bytes(Filled)' = BytesOf(owned', Filled')
  BY Zenon DEF Bytes
<1> QED
  BY Zenon, <1>2, <1>5, <1>9, <1>17, <1>18 DEF SizeInv

\* clear leaves an empty buffer, with the counter at zero if it was empty.
LEMMA ReleaseSize ==
    ASSUME SizeInv, Release
    PROVE  SizeInv'
<1>1. TypeOK /\ RangeInv
  BY Zenon DEF SizeInv
<1> DEFINE cellset == range.start..(range.end - 1)
<1>2. /\ pc # "fill" /\ pc' = "fill" /\ UNCHANGED <<capacity, slices, range>>
      /\ owned' = [i \in Cell |-> IF i \in cellset THEN Uninit ELSE owned[i]]
      /\ total_size' = (0 - Bytes(cellset)) % Modulus
      /\ discarded' = (discarded \/ range.start < range.end)
  BY Zenon DEF Release, Remove
<1>3. Filled = cellset
  BY Zenon, <1>1, <1>2 DEF RangeInv
<1>4. TypeOK' /\ Filled' = {}
  <2>1. Filled' = {}
    BY Zenon, <1>2, <1>3 DEF Filled
  <2> QED
    BY Zenon, <1>1, <1>2, <2>1 DEF TypeOK
<1>5. Bytes(Filled)' = 0
  BY Zenon, <1>4, NoBytes DEF Bytes
<1>6. ~discarded' => total_size' = 0 % Modulus
  <2> SUFFICES ASSUME ~discarded' PROVE total_size' = 0 % Modulus
    BY Zenon
  <2>1. range.start \in Nat /\ range.end \in Nat /\ ~(range.start < range.end)
    BY Zenon, <1>1, <1>2, Room
  <2>2. cellset = {}
    BY <2>1
  <2>3. Bytes(cellset) = 0
    BY Zenon, <2>2, NoBytes DEF Bytes
  <2>4. 0 - Bytes(cellset) = 0
    <3> HIDE DEF cellset
    <3> QED
      BY <2>3
  <2> QED
    BY Zenon, <1>2, <2>4
<1> QED
  BY Zenon, <1>2, <1>4, <1>5, <1>6 DEF SizeInv, RangeInv

\* A resize is of an empty buffer.
LEMMA ResizeSize ==
    ASSUME SizeInv, NEW capa \in Capacities, Resize(capa)
    PROVE  SizeInv'
<1>1. /\ TypeOK /\ pc = "fill" /\ pc' = pc /\ Filled = {}
      /\ UNCHANGED <<total_size, discarded>>
  BY Zenon DEF SizeInv, Resize
<1>2. TypeOK'
  BY Zenon DEF SizeInv, Resize, TypeOK
<1>3. Filled' = {}
  BY Zenon DEF Resize, Filled
<1>4. Bytes(Filled) = 0
  BY Zenon, <1>1, NoBytes DEF Bytes
<1>5. Bytes(Filled)' = 0
  BY Zenon, <1>3, NoBytes DEF Bytes
<1> QED
  BY Zenon, <1>1, <1>2, <1>4, <1>5 DEF SizeInv, RangeInv

\* The queue and the holder of the handle pass the range on, and a slice is
\* lent with the counter as it is.
LEMMA LendSize ==
    ASSUME SizeInv, TakeSlice \/ SliceAgain \/ IntoIter \/ Requeue
    PROVE  SizeInv'
<1>1. TypeOK /\ RangeInv
  BY Zenon DEF SizeInv
<1>2. UNCHANGED <<capacity, owned, slices, total_size, discarded>>
  BY Zenon DEF TakeSlice, SliceAgain, IntoIter, Requeue
<1>3. Filled' = Filled
  BY Zenon, <1>2 DEF Filled
<1>4. pc' = "slice" => view_size' = total_size'
  BY Zenon, <1>2 DEF TakeSlice, SliceAgain, IntoIter, Requeue, Slice
<1>5. CASE TakeSlice
  <2>1. PICK n \in 1..capacity :
            /\ Filled = 0..(n - 1) /\ range' = [start |-> 0, end |-> n]
    BY Zenon, <1>5 DEF TakeSlice, Slice
  <2>2. pc' = "slice"
    BY Zenon, <1>5 DEF TakeSlice
  <2>3. n \in Nat /\ 0 <= n /\ n <= capacity
    BY <1>1, <2>1, Room
  <2>4. range'.start = 0 /\ range'.end = n /\ range' \in [start : Nat, end : Nat]
    BY Zenon, <2>1, <2>3
  <2>5. TypeOK' /\ RangeInv'
    BY Zenon, <1>1, <1>2, <1>3, <2>1, <2>2, <2>3, <2>4 DEF TypeOK, RangeInv
  <2> QED
    BY Zenon, <1>2, <1>4, <2>5, SameSize
<1>6. CASE SliceAgain \/ IntoIter \/ Requeue
  <2>1. pc # "fill" /\ pc' \in {"slice", "iter", "due"}
    BY Zenon, <1>6 DEF SliceAgain, IntoIter, Requeue
  <2>2. range' = range
    BY Zenon, <1>1, <1>6 DEF SliceAgain, IntoIter, Requeue, Slice, TypeOK
  <2>3. TypeOK' /\ RangeInv'
    BY Zenon, <1>1, <1>2, <1>3, <2>1, <2>2 DEF TypeOK, RangeInv
  <2> QED
    BY Zenon, <1>2, <1>4, <2>3, SameSize
<1> QED
  BY Zenon, <1>5, <1>6

\* A frame and its drop write slots only.
LEMMA FrameSize ==
    ASSUME SizeInv,
           \/ \E bounds, header, trailer : Frame(bounds, header, trailer)
           \/ DropFrame
    PROVE  SizeInv'
<1>1. TypeOK /\ RangeInv /\ (pc = "slice" => view_size = total_size)
  BY Zenon DEF SizeInv
<1>2. UNCHANGED <<capacity, owned, total_size, pc, range, view_size, discarded>>
  BY Zenon DEF Frame, DropFrame
<1>3. slices' = [i \in Slot |-> slices'[i]]
  BY <1>1 DEF Frame, DropFrame, TypeOK
<1>4. TypeOK' /\ RangeInv'
  BY Zenon, <1>1, <1>2, <1>3 DEF TypeOK, RangeInv, Filled
<1> QED
  BY Zenon, <1>1, <1>2, <1>4, SameSize

\* The counter of a vectored buffer follows its values through every insertion,
\* drain, requeue, resize and frame, until a slice is dropped with values in it.
THEOREM SizeInvariance == Spec => []SizeInv
<1>1. Init => SizeInv
  <2> SUFFICES ASSUME Init PROVE SizeInv
    BY Zenon
  <2>1. TypeOK /\ Filled = {} /\ pc = "fill" /\ total_size = 0
    BY Zenon DEF Init, TypeOK, Filled
  <2>2. Bytes(Filled) = 0 /\ Modulus \in Nat /\ Modulus > 0
    BY Zenon, <2>1, NoBytes, FilledFacts DEF Bytes
  <2>3. 0 % Modulus = 0
    BY <2>2
  <2> QED
    BY Zenon, <2>1, <2>2, <2>3 DEF SizeInv, RangeInv
<1>2. SizeInv /\ [Next]_vars => SizeInv'
  <2> SUFFICES ASSUME SizeInv, [Next]_vars PROVE SizeInv'
    BY Zenon
  <2>1. CASE UNCHANGED vars
    BY Zenon, <2>1 DEF vars, SizeInv, TypeOK, RangeInv, Filled, Bytes
  <2>2. CASE \E index \in Cell, value \in Blob : Insert(index, value)
    BY Zenon, <2>2, InsertSize
  <2>3. CASE \E capa \in Capacities : Resize(capa)
    BY Zenon, <2>3, ResizeSize
  <2>4. CASE TakeSlice \/ SliceAgain \/ IntoIter \/ Requeue
    BY Zenon, <2>4, LendSize
  <2>5. CASE NextValue
    BY Zenon, <2>5, NextValueSize
  <2>6. CASE Release
    BY Zenon, <2>6, ReleaseSize
  <2>7. CASE \/ \E bounds \in FrameRanges(range.end - range.start),
                   header \in BOOLEAN, trailer \in BOOLEAN :
                      Frame(bounds, header, trailer)
             \/ DropFrame
    BY Zenon, <2>7, FrameSize
  <2> QED
    BY Zenon, <2>1, <2>2, <2>3, <2>4, <2>5, <2>6, <2>7 DEF Next
<1> QED
  BY <1>1, <1>2, PTL DEF Spec

\* total_size of a slice is the number of bytes of the io-slices lent, modulo
\* the width of the word, as long as every value was taken out by an iterator.
THEOREM TotalSizeFollows == Spec => []TotalSizeFollowsDrains
<1>1. SizeInv => TotalSizeFollowsDrains
  BY Zenon DEF SizeInv, RangeInv, TotalSizeFollowsDrains, TotalSizeIsExact
<1> QED
  BY <1>1, SizeInvariance, PTL
=============================================================================
