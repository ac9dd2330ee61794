----------------------------- MODULE QueueBatch -----------------------------
(***************************************************************************)
(* Queue implements BatchQueue: the abstract queue is what Queue contains, *)
(* and the batch lent is what the handle reads.                            *)
(***************************************************************************)
EXTENDS QueueContent

Abstract == INSTANCE BatchQueue
    WITH queue <- AbstractQueue, closed <- enqueuing_capacity.closed,
         lent <- Lent, batch <- Batch

\* Whatever the interleaving of enqueues, swaps, resizes, drains, requeues,
\* closes and reopens, the queue is a FIFO queue lent batch by batch: no
\* element lost, duplicated or reordered, none accepted once closed.
ImplementsBatchQueue == Abstract!Spec

\* Something accepted is eventually lent to a polling consumer: no order of
\* swaps, Pending returns and acknowledgements strands a reserved value.
AcceptedIsLent == AbstractQueue # <<>> ~> Lent
=============================================================================
