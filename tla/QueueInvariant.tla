--------------------------- MODULE QueueInvariant ---------------------------
(***************************************************************************)
(* The inductive invariant of Queue.  Its heart is an equation between the *)
(* counters the code keeps and the cells producers still owe:              *)
(*    acknowledged cells + owed cells = reserved cells,                    *)
(* so that a consumer that reads an acknowledged length equal to the       *)
(* reserved one knows that nobody owes anything.                           *)
(***************************************************************************)
EXTENDS Queue

\* Per buffer, the cells that are reserved and not acknowledged.
Owed == [b \in Buffer |->
            {i \in Cell : \E p \in Producers :
                /\ Owes(p)
                /\ producer[p].seen.index = b
                /\ i \in OwedCells(p)}]

\* All that concerns one buffer.
Buf == [b \in Buffer |->
           [owed |-> Owed[b], cells |-> cells[b], acked |-> buffers_length[b],
            capa |-> buf_capacity[b]]]

\* The buffer that is not the enqueuing one.
Other == 1 - enqueuing_capacity.index

\* Nobody owes cells, and cells lo..hi-1 are the ones holding values.
Settled(buf, lo, hi) ==
    /\ buf.owed = {}
    /\ \A i \in Cell : buf.cells[i] # Uninit <=> (lo <= i /\ i < hi)

\* The first n cells are reserved; each of them is acknowledged, and holds a
\* value, or owed.
Reserved(buf, n) ==
    /\ n \in 0..buf.capa
    /\ buf.acked + Cardinality(buf.owed) = n
    /\ \A i \in buf.owed : i < n
    /\ \A i \in Cell \ buf.owed : buf.cells[i] # Uninit <=> i < n

\* The last n cells are left after a partial drain.
Drained(buf, n) ==
    /\ n > 0
    /\ buf.acked \in n..buf.capa
    /\ Settled(buf, buf.acked - n, buf.acked)

IsDue(buf, n) == Reserved(buf, n) \/ Drained(buf, n)

\* n values have been inserted before the buffer is swapped in.
Prepared(buf, n) ==
    /\ n \in 0..buf.capa
    /\ Settled(buf, 0, n)

ProducerInv(p) ==
    LET t == producer[p] IN
    /\ t.pc # "idle" => t.value \in Values /\ Len(t.value) <= t.seen.remaining
    /\ Owes(p) => t.seen.remaining <= buf_capacity[t.seen.index]
    /\ t.pc = "insert" =>
          \A i \in OwedCells(p) : cells[t.seen.index][i] = Uninit
    /\ t.pc = "ack" =>
          \A i \in OwedCells(p) : cells[t.seen.index][i] # Uninit

DisjointOwed ==
    \A p, q \in Producers :
        /\ p # q /\ Owes(p) /\ Owes(q)
        /\ producer[p].seen.index = producer[q].seen.index
        => OwedCells(p) \cap OwedCells(q) = {}

\* There was a reason to swap the buffer of the word t.seen out.
WorthSwapping(t, capa) ==
    t.resized \/ t.inserted > 0 \/ t.seen.remaining < capa

ConsumerInv(c) ==
    LET t == consumer[c]
        buf == Buf[consumer[c].index]
        seen_capa == buf_capacity[consumer[c].seen.index] IN
    /\ t.pc \notin {"idle", "notify"} => t.index = Other
    /\ t.pc = "resize" => Reserved(buf, 0) /\ t.inserted = 0
    /\ t.pc = "insert" => Prepared(buf, t.inserted) /\ buf.acked = 0
    /\ t.pc \in {"load", "swap"} =>
          Prepared(buf, t.inserted) /\ buf.acked = t.inserted
    /\ t.pc = "swap" =>
          /\ t.seen.index = enqueuing_capacity.index
          /\ enqueuing_capacity.remaining <= t.seen.remaining
          /\ t.seen.remaining <= seen_capa
          /\ WorthSwapping(t, seen_capa)
    /\ t.pc = "notify" =>
          /\ t.index = enqueuing_capacity.index
          /\ t.seen.index = Other
          /\ Reserved(Buf[t.seen.index], seen_capa - t.seen.remaining)
          /\ WorthSwapping(t, seen_capa)
    /\ t.pc = "spin" => t.length > 0
    /\ t.pc \in {"spin", "store"} => IsDue(buf, t.length)
    /\ t.pc \in {"slice", "iter"} =>
          /\ buf.acked = t.start + t.length
          /\ buf.acked <= buf.capa
          /\ Settled(buf, t.start, t.start + t.length)
    /\ t.pc = "panicked" => buf.owed = {}

\* Between two calls, what is still due on the dequeuing buffer.
UnlockedInv ==
    dequeuing_length # DEQUEUING_LOCKED =>
        /\ dequeuing_length.index = Other
        /\ IsDue(Buf[dequeuing_length.index], dequeuing_length.length)

EnqueuingInv ==
    Reserved(Buf[enqueuing_capacity.index],
             buf_capacity[enqueuing_capacity.index]
               - enqueuing_capacity.remaining)

\* The whole: what every reachable state of queue.rs satisfies, whatever the
\* number of threads, the values, the capacities and the order of steps.
IInv ==
    /\ TypeOK
    /\ LockIsExclusive
    /\ EnqueuingInv
    /\ UnlockedInv
    /\ \A p \in Producers : ProducerInv(p)
    /\ DisjointOwed
    /\ \A c \in Consumers : ConsumerInv(c)
    /\ CapacityIsPublished
=============================================================================
