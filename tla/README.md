# A TLA+ verification of swap-buffer-queue

This directory holds a formal model of the
[swap-buffer-queue](../src/README.md) crate: TLA+ modules translated from its
source, TLC configurations that model-check them on small instances, and
theorems, checked by the TLAPS proof system, that hold for every number of
threads, every capacity and every value.

## The system

The crate is a bounded multi-producer, single-consumer-at-a-time queue that
dequeues whole buffers at once.

| Part | Source | What it does |
| --- | --- | --- |
| Queue | `src/src/queue.rs` | Two buffers. Producers reserve cells of the enqueuing buffer with a compare-and-swap on `enqueuing_capacity`, write them, and add their number to `buffers_length`. A consumer locks `dequeuing_length`, swaps the buffers, waits until `buffers_length` has caught up with what was reserved, and lends the old buffer as a slice. |
| Packed words | `src/src/queue.rs` | `EnqueuingCapacity` (closed flag, room left, index) and `DequeuingLength` (length, index), each in one `usize`; `usize::MAX` is the dequeuing lock. |
| Handles | `src/src/buffer.rs` | `BufferSlice` and `BufferIter`: release on drop, requeue, drain value by value. |
| Cell buffers | `src/src/buffer/{vec,array}.rs` | Cells of `MaybeUninit`. |
| Byte buffers | `src/src/write.rs`, `src/src/write/` | Bytes with room for a header and a trailer. |
| Vectored buffers | `src/src/write_vectored.rs`, `src/src/write_vectored/` | Values with their io-slices, a total size, and frames with a header and a trailer. |
| Synchronized queue | `src/src/synchronized.rs`, `src/src/notify.rs` | Blocking, timed and async operations over the queue. |
| Wakers | `src/src/synchronized/{atomic_waker,waker_list,waker}.rs` | One slot for the dequeuer, a list for the enqueuers. |
| Rest | `src/src/{error,loom,utils,lib}.rs` | Error types, the std/loom switch, helpers. |

The interesting part is the unsafe code: a consumer takes `&mut` access to a
buffer that producers write through a shared reference, and the only thing that
keeps them apart is arithmetic on three atomics. The hazards (stale words,
acknowledgements out of order, requeues after a partial drain, panics between
two steps, ...) are listed with their source lines in `PROJECT.json`. The other
hard part is sleeping: a blocking call decides to sleep from words it read a
moment ago, while somebody else changes them and looks for sleepers without
taking a lock.

## Modules

| Module | Contents |
| --- | --- |
| `Words` | The two packed words as records, and the operations on them. |
| `Queue` | The queue, its cell buffers and its handles: state, actions, safety and fairness. |
| `BatchQueue` | The abstract specification: a closable FIFO queue lent batch by batch. |
| `QueueInvariant` | The inductive invariant `IInv` of `Queue`. |
| `QueueContent` | What a queue contains, the invariant `BatchInv` of the refinement, emptiness. |
| `QueueBatch` | The refinement mapping from `Queue` to `BatchQueue`; the liveness property. |
| `QueueDrop` | `Queue` followed by the destructor of the queue, and its invariant `DropInv`. |
| `QueueProducerProofs` | Lemmas on owed cells; the steps of producers preserve `IInv`. |
| `QueueProofs` | The steps of consumers preserve `IInv`; the safety theorems; the destructor. |
| `QueueContentProofs` | What each step does to the content of the queue. |
| `QueueBatchProofs` | `BatchInv` is invariant; `Queue` implements `BatchQueue`; `Empty` is true. |
| `PackedWords` | The bit arithmetic of the words modulo `Modulus`, next to the records of `Words`. |
| `PackedWordsProofs` | The words decode to the records at every width. |
| `WriteVectored` | A vectored buffer, its slices and frames. |
| `WriteVectoredProofs` | Io-slices stay with their values, frames of whole slices are exact, and the byte counter follows the values. |
| `WriteBytes` | A byte buffer and the `BytesSlice` lent from it. |
| `WriteBytesProofs` | Payloads and frames are exact. |
| `AtomicWaker` | The waker slot of the dequeuer: `register` and `wake`. |
| `WakerList` | The waker list of the enqueuers: `register`, `wake`, `wake_all`. |
| `SynchronizedQueue` | The blocking, timed and asynchronous operations, composed with instances of `AtomicWaker` and `WakerList`. |
| `SynchronizedQueueInvariant` | The inductive invariant `WaitInv` of `SynchronizedQueue`. |
| `SynchronizedQueueProofs` | What each action does; the slot and the vector of the wakers; no sleeper is forgotten. |
| `MCQueue`, `MCQueueDrop`, `MCWriteVectored`, `MCWriteBytes` | Instances for TLC. |

### How `Queue` corresponds to the code

One action is one access to a shared atomic, together with the thread-local code
and the accesses to exclusively owned memory around it.

| Code | Action |
| --- | --- |
| `try_enqueue`: load, checks | `TryEnqueue` |
| compare-and-swap, success / failure | `ReserveCells` / `RetryReserve` |
| `insert_into`, returning / panicking | `InsertValue` / `InsertPanics` |
| `fetch_add` and notification | `Acknowledge` |
| `lock_dequeuing`, from either public call | `TryDequeue`, `TryDequeueAndResize` |
| resize closure: resize, insertion loop, its panics, `fetch_add` | `ResizeBuffer`, `InsertMore`, `InsertMorePanics`, `InsertDone` |
| load of the enqueuing word, emptiness test | `LoadEnqueuing` |
| swap loop, success / failure | `SwapBuffers` / `SwapRetry` |
| store of the capacity, dispatch | `PublishCapacity` |
| `try_dequeue_spin`: enough / gives up | `TakeSlice` / `GiveUpSpinning` |
| the stores that unlock | `StoreDequeuing` |
| handles | `Release`, `Requeue`, `IntoIter`, `IntoSlice`, `NextValue` |
| `close`, `reopen` | `Close`, `Reopen` |

`producer[p]` and `consumer[c]` hold a thread's position (`pc`) and locals. A
consumer that holds a `BufferSlice` or `BufferIter` is at pc `"slice"` or
`"iter"`; one whose call unwound from a panic is at `"panicked"` for ever, as is
the lock it left behind.

What is abstracted:

- Atomics are sequentially consistent. Weak-memory effects of the relaxed and
  acquire/release accesses are not modelled; the crate's loom tests are the
  place for them.
- The number of spins (`SPIN_LIMIT`) and the backoff are left open: a consumer
  may give up after any read that falls short.
- A weak compare-and-swap that fails spuriously is a stuttering step.
- The value returned with an error is not kept; which error is returned is
  visible in the step that decides it.
- Notifications are no-ops, as with `N = ()`; `SynchronizedQueue` has them.
- Capacities are within `check_overflow`; user destructors do not panic.

`QueueDrop` adds the destructor: when every call has returned or unwound and no
handle is left, `Drop`, `DropStep` and `DropDone` make the one `try_dequeue` of
`Queue::drop` with the actions of `Queue` and release its slice.

### How the wakers correspond to the code

`AtomicWaker` has one action per access to `state`, with the accesses to the
slot that lead to it. The two bits are a set.

| Code | Action |
| --- | --- |
| `register`: first compare-and-swap, with the `WAKING` and `REGISTERING` answers | `Register` |
| store of the waker, compare-and-swap back | `StoreWaker` |
| take back, `swap`; `wake` | `TakeBack`; `Deliver` |
| `wake`: `fetch_or` | `Wake` |
| `take`, `fetch_and`; `wake` | `Take`; `Deliver` |

`WakerList`: `LockToRegister` (lock, raise the flag if the vector is empty) and
`Push` (push, unlock) are `register`; `Wake` is the load and the
compare-and-swap of the flag, `LockToWake`, `WakeOne` for each waker and
`UnlockDrained` are `wake_all`. A waker is the name of the thread or task it
wakes, so the vector is a set. Waking sets the `token` of a thread: the permit of
`unpark`, or the mark of a scheduled task. A token stays until the thread waits.

### How `SynchronizedQueue` corresponds to the code

The queue is reduced to what decides whether an operation blocks: cells used in
the enqueuing buffer, cells due in the other, reservations not yet inserted, the
capacities and the published one, the closed bit, the lock. `Queue` has the rest,
and a compare-and-swap loop is its successful iteration. `op[t]` is the position
of a thread in its operation; the variables of the two wakers are those of the
instances `dequeuer` and `enqueuers`, which share `token`.

| Code | Action |
| --- | --- |
| `enqueue`, `enqueue_timeout`, `enqueue_async`, a plain `try_enqueue` | `Enqueue`, `EnqueueTimeout`, `EnqueueAsync`, `PlainEnqueue` |
| `Queue::try_enqueue`: reservation or refusal; insertion; notification | `TryEnqueue`; `Insert`; `NotifyDequeue` |
| `v.size() <= queue.capacity()` | `Compare` |
| `enqueuers.register`, `dequeuer.register` | `RegisterEnqueuer`, `RegisterDequeuer` |
| `dequeue`, `dequeue_timeout`, `dequeue_async`, `iter`, `stream`, plain calls | `Dequeue`, `DequeueTimeout`, `DequeueAsync`, `Iter`, `Stream`, `PlainDequeue`, `DequeueAndResize` |
| `try_dequeue_internal`: lock; test and swap; capacity; notification; spin; unlock | `Lock`; `Swap`; `Publish`; `NotifyEnqueue`; `Spin`; `Unlock` |
| drop of a slice; requeue or drop of an iterator | `Release`; `Requeue` |
| a parked thread or a pending task goes on; the deadline is over; a future is dropped | `Resume`; `Expire`; `Cancel` |
| `close`, `reopen` | `Close` (then `NotifyDequeue`, `NotifyEnqueue`), `Reopen` |
| the code of the wakers | `WakerStep` |

`phase` says which attempt of the helpers `try_enqueue` and `try_dequeue`
(`synchronized.rs:437` and `463`) is made: one of the `SPIN_LIMIT` spins, the
recheck after the registration, or the last one after a deadline. An operation
whose attempt failed goes where `TryAgain` says.

### How `WriteBytes` corresponds to the code

`bytes` is the boxed slice of `WriteVecBuffer` or the array of
`WriteArrayBuffer`, from position 1. `Reserve` is the reservation of the queue,
`Insert` the copy of a writer at `HEADER_SIZE + index`, in any order; `Slice`,
`Deref`, `Header`, `Trailer` and `DerefMut` are the operations of `BytesSlice` by
their offsets. A byte records its writer, position and round, so that a stale one
can be told. `expected` and `framing` are history variables of the properties.

## Properties and runs

| Run | Instance | Shows |
| --- | --- | --- |
| `basic` | 3 producers, 2 consumers, capacity 2, values of 1 or 2 elements, insertions by `try_dequeue_and_resize`, panics, close and reopen | `TypeOK`, `BatchInv` (which contains `IInv`), and each unsafe contract: `LockIsExclusive`, `ExclusiveAccess`, `SliceIsInitialized`, `InsertIsSafe`; `PendingIsTrue`; `OnlyReopenReopens`; `ImplementsBatchQueue` |
| `resize` | 2 producers, 1 consumer, capacities 0 and 2 from 1, insertions, panics, close and reopen, then the destructor | `ResizeLosesNothing`, `DebugAsserts`, `CapacityIsPublished`, `EmptyIsTrue`, `DropInv`, `DropFreesOneBuffer`, and `IInv` and `ImplementsBatchQueue` with buffers of different sizes |
| `live` | 2 producers, 2 consumers, resizing between 2 and 1, close | `AcceptedIsLent` under fairness; `EmptyIsTrue` with two consumers |
| `packed` | words of 6 bits (`Modulus = 64`) | `PackedInv`, `EnqueuingDecodes`, `DequeuingDecodes` |
| `frames` | vectored buffers of 2 or 3 cells | `VectoredInv`, `SlicesFollowOwners`, `FrameIsExact` for frames of whole slices, `TotalSizeFollowsDrains`, `SizeInv` |
| `bytes` | capacities 2 and 3, header of 1 byte, trailer of 2, writers of 1 and 2, three rounds | `BytesInv`, `PayloadIsExact`, `FrameIsExact` |
| `waits` | 1 enqueuer, 1 dequeuer, 1 closer, a value of 2 cells, capacities 1 and 2, every dequeuing operation but `stream` (in `blocking`), timed and plain enqueues, spurious wake-ups, close and reopen | `SleepingDequeuerIsOwedAWake`, `SleepingEnqueuerIsOwedAWake`, `SlotIsExclusive`, `FlagIsUp`, `DequeueErrIsTotal`, `WaitInv` |
| `blocking` | 1 blocking or async enqueuer, 1 streaming dequeuer, 1 closer, capacity 1 | `CloseEndsOperations`, `ValueEndsDequeue`, `EnqueuerIsWoken` under fairness |

The two central properties of `SynchronizedQueue` say that a thread asleep
although it could go on (a dequeuer with something due, enqueued or closed; an
enqueuer whose value fits, can no longer fit, or whose queue is closed) has its
token or is about to get it from somebody who is on the way through `insert`,
`publish`, a notification or the code of a waker.

Why the bounds are enough for the interesting cases. Two cells and values of one
and two elements give full, partly filled and empty buffers, a value that fits
alone but not after another, and partial drains. Three producers in a buffer of
two cells allow two writers at once in one buffer and a third that holds a word
of an older generation. Two consumers are needed for conflicts and for a pending
length resumed by another thread. Capacity 0 makes a swapped-in buffer full from
the start. Six bits leave room for every capacity up to 14 beside the index and
the flag, among them those next to a carry; a wider word adds values, not
carries. Threads are interchangeable, so `basic` and `resize` use symmetry of the
thread sets; `live`, which checks liveness, does not. `SPIN_LIMIT = 1` makes the
spins of a blocking call one attempt: more of them only repeat it. A capacity of
one or two cells and values of one or two make an enqueuer wait, and with two
capacities a value may fit only one of them. A timed operation takes every step a
blocking one takes and may also give up, so `waits` has timed and plain enqueues
and leaves the rest to the proofs, which hold for all modes. A buffer of bytes needs three
rounds: a short frame, a longer one over its trailer, and a requeued one.
In `SynchronizedQueue` a closed queue is not closed again before it is reopened.

Larger instances of `SynchronizedQueue` were checked while its invariant was
written, without a violation: two enqueuers with one dequeuer (7.7 million
states), two dequeuers that take turns with timed operations and resizes (4.3
million), sizes and capacities 1 and 2 with every mode (12 million), and two
dequeuers at once with the part of `WaitInv` that does not assume turns (3.2
million). They take minutes and show nothing the theorems do not.

Four runs end in a violation. Each compares the code with a sentence of its own
documentation:

- `conflict`: the insertion loop of `try_dequeue_and_resize` compares a value
  with the whole capacity instead of the room left (`queue.rs:814`). The write
  past the end panics, and the dequeuing word stays locked: `Conflict` for ever,
  with nobody dequeuing.
- `discarded`: `clear` of a vectored buffer zeroes the counter and then lets
  `remove` subtract every size from it (`write_vectored/vec.rs:58`).
- `frame_bounds`: the end of a bounded frame is one slot short
  (`write_vectored.rs:129`).
- `two_dequeuers`: two threads block in `dequeue` at once. Neither gets
  `Conflict`, since the lock is free while they sleep; they share the one slot of
  `AtomicWaker`, and after `close` one of them sleeps for ever
  (`synchronized.rs:477`).

### Fairness

`FairSpec` assumes that a thread inside a call keeps taking steps and that
consumers poll (weak fairness of the steps of a call, and of starting a
`try_dequeue`). Nothing is assumed of users: nobody has to enqueue, close, or do
anything with a handle. The property says that whatever has been accepted is
eventually lent to somebody. The run has no panics (a producer that panics leaves
its cells unacknowledged for ever, so its buffer is never lent) and no `reopen`
(close and reopen alternating for ever can make the compare-and-swap of a
consumer fail every time; weak fairness of a lock-free loop does not exclude
that).

`FairSpec` of `SynchronizedQueue` assumes weak fairness of the
steps of each thread inside an operation, the code of the wakers included, and of
going on with a token. The mutex of `WakerList` is not assumed to be fair: a
thread that waits for it gets it only if it stays free. That is enough for
`CloseEndsOperations`, whatever the spurious wake-ups. It is not for the other
two: enqueuers that wake spuriously, or whose futures are dropped, register again
and could take the mutex before the dequeuer inside `wake_all` for ever.
`ValueEndsDequeue` and `EnqueuerIsWoken` therefore speak of behaviours that
become calm: `Calm` says that from some point on threads are woken only by a
wake-up. `EnqueuerIsWoken` also assumes `KeepsDequeuing`: the dequeuer always
calls again and does not requeue the same values for ever (strong fairness of
`Release`), since an enqueuer can only be woken by a swap.

## What is proved

### The queue

`QueueProofs`, with the lemmas of `QueueProducerProofs`, and `QueueBatchProofs`,
with those of `QueueContentProofs`, prove, from `QueueAssumption` alone (the
values are non-empty sequences of elements other than `Uninit`, capacities are at
most `MaxCapacity`), for any sets of producers and consumers:

| Theorem | Statement |
| --- | --- |
| `Invariance` | `Spec => []IInv` |
| `TypeCorrect` | `Spec => []TypeOK` |
| `MutualExclusion` | `Spec => []LockIsExclusive` |
| `NoSharedAccess` | `Spec => []ExclusiveAccess` |
| `SlicesInitialized` | `Spec => []SliceIsInitialized` |
| `InsertsSafe` | `Spec => []InsertIsSafe` |
| `ResizeSafe` | `Spec => []ResizeLosesNothing` |
| `DebugAssertsHold` | `Spec => []DebugAsserts` |
| `CapacityPublished` | `Spec => []CapacityIsPublished` |
| `PendingJustified` | `Spec => []PendingIsTrue` |
| `ReopenOnly` | `Spec => OnlyReopenReopens` |
| `BatchInvariance` | `Spec => []BatchInv` |
| `Refinement` | `Spec => ImplementsBatchQueue` |
| `EmptyJustified` | `Spec => EmptyIsTrue` |
| `DropRefinesQueue` | `SpecDrop => Spec` |
| `DropInvariance` | `SpecDrop => [](IInv /\ DropInv)` |
| `DropFrees` | `SpecDrop => []DropFreesOneBuffer` |

None of the safety properties is inductive. Why a consumer that reads
`buffers_length[b] >= length` may take the buffer is a matter of counting, and
the counting is the heart of `IInv`: in each buffer

    acknowledged cells + owed cells = reserved cells

where a cell is owed while some producer has reserved it and not acknowledged it
(`Reserved` in `QueueInvariant`). Around it, `IInv` says which cells hold values
(exactly the reserved ones that are not owed), that no two producers owe the same
cell, and, for each position of the consumer and for the unlocked word, in which
of a few conditions the other buffer is: reserved up to a length still due,
partly drained (only the last cells are left), prepared with inserted values, or
settled (nobody owes anything). When acknowledged reaches reserved, owed is
empty, and the consumer is alone.

A stale compare-and-swap needs no generation counter: equality of the whole word
means that the room left is what the producer saw, and the position it writes to
follows from the word and the capacity of the buffer it names, both current when
the swap succeeds. The proof of `ReserveCellsInv` rests on this.

The proof has one lemma per action (or per pair of like actions); lemmas on what
an insertion, an erasure or an acknowledgement does to a buffer
(`ReserveMore`, `AcknowledgeMore`, `InsertFacts`, `EraseFacts`, ...); and two
lemmas, `HolderStep` and `BufferStep`, for the steps of the consumer that holds
the lock, which disturb at most one buffer.

#### The refinement

The abstract queue is `Due \o Enqueued`: what is due from the buffer swapped out,
then what is reserved in the enqueuing buffer. A reserved cell that its producer
has not written counts with the value it is going to get (`Content`), so an
enqueue takes effect at its compare-and-swap, in the order of the reservations,
and writing and acknowledging a cell are stuttering steps. This is why a slice can
be what the abstract queue lends although producers finish in any order: by
`IInv` nothing is owed in a buffer when it is lent.

`BatchInv` adds to `IInv` the two facts the mapping needs and the unsafe contracts
do not: the cells `try_dequeue_and_resize` has filled hold values of its closure
until the swap makes them visible (`InsertedInv`), and a word a producer is about
to swap was open when it was read (`OpenInv`), so no element is accepted by a
closed queue through a stale word.

`QueueContentProofs` has one lemma per action that says which of eight things it
does to the content (`Stutters`, `SetsClosed`, `Enqueues`, `Swaps`, `Borrows`,
`Drains`, `GivesBack`, `Consumes`). It is about regions of cells only: `ReserveStep` shows that a reservation appends its value,
`SwapBuffersStep` that the enqueued region becomes the due one and the inserted
values the new enqueued one, `StoreStep` and `RequeueStep` that a length put back
in the word denotes the same cells, and `NextValueStep` that a drain removes the
head. `QueueBatchProofs` shows that each of the eight is a step of
`BatchQueue` or a stutter. `EmptyJustified` follows from the same description:
the two steps at which a consumer decides on `Empty` or `Closed` are taken when
nothing is due and no cell of the enqueuing buffer is reserved.

#### The destructor

Every step of `SpecDrop` is a step of `Queue` or a stutter, so `IInv` holds in
`QueueDrop` too. `DropInv` follows the one `try_dequeue` of `Queue::drop`: with
no producer inside a call nothing is owed unless a producer unwound, hence the
spin ends at its first read, and the consumer is left with nothing due.

### The packed words

`PackedWordsProofs`, for every `Modulus` that is a multiple of 4 from 8 on (a
power of two in the code):

| Theorem | Statement |
| --- | --- |
| `PackedInvariance` | `Spec => []PackedInv`, if `MaxSize <= MAX \div 2` |
| `EnqueuingDecoded` | `Spec => []EnqueuingDecodes`, if `MaxSize <= MAX \div 2` |
| `DequeuingDecoded` | `Spec => []DequeuingDecodes`, if `MaxSize <= MAX \div 2` |

`PackedInv` says that the word is `index + 2 * room`, plus `CLOSED_FLAG` when
closed, with a room that passes `check_overflow`, and likewise for the dequeuing
word; decoding is then division by 2 and by the flag. The hypothesis bounds the
sizes of values to those whose `size << 1` keeps all its bits. The code has no
such guard; see "Not modelled".

### The write buffers

| Theorem | Statement |
| --- | --- |
| `WriteBytesProofs!BytesInvariance` | `Spec => []BytesInv` |
| `WriteBytesProofs!PayloadExact` | `Spec => []PayloadIsExact` |
| `WriteBytesProofs!FrameExact` | `Spec => []FrameIsExact` |
| `WriteVectoredProofs!VectoredInvariance` | `Spec => []VectoredInv`, if `~Bounded` |
| `WriteVectoredProofs!SlicesFollow` | `Spec => []SlicesFollowOwners`, if `~Bounded` |
| `WriteVectoredProofs!FrameExact` | `Spec => []FrameIsExact`, if `~Bounded` |
| `WriteVectoredProofs!SizeInvariance` | `Spec => []SizeInv` |
| `WriteVectoredProofs!TotalSizeFollows` | `Spec => []TotalSizeFollowsDrains` |

The byte buffer is never cleared, so exactness is not a matter of what the buffer
holds but of what was overwritten in this round. `BytesInv` says that the ranges
reserved are disjoint and inside the capacity, that a payload byte nobody owes is
the expected one, and that a header or trailer written since the slice was first
lent is still around the payload. The theorems hold for every header and trailer
size, empty ones included, and any number of writers and rounds.

In a vectored buffer the header and the trailer of a frame overwrite slots of the
io-slices. `VectoredInv` says that values lie exactly in the range lent or due,
each with its io-slice one slot behind it, and that a frame of a whole slice takes
only the two slots around that range, which belong to no value. `~Bounded`
restricts frames to whole slices: with bounded ranges `FrameIsExact` is false, as
`frame_bounds` shows. `SlicesFollowOwners` is false then too: a frame of an empty
range with a header and a trailer puts both in one slot, and its drop, which
restores the header's slot first, leaves the header's io-slice there.

`SizeInv` needs no such restriction. It says that until a slice has been dropped
with values in it (`discarded`), the counter is the sum of the sizes of all values
owned, modulo `Modulus`, and that a slice lent carries the counter as it is. The
statement about the slices alone is not inductive: insertions add to the counter
in any order while nothing is lent. The proof rests on two groups of lemmas.
`BytesPick`, `BytesSame`, `BytesNat` and `BytesWithout` say what the sum over a
finite set of cells is when a cell is added or removed; the fold behind the sum
takes elements in an order of its own choice, so that any element may be taken out
first is an induction over subsets, done by looking at a smallest subset that
would be a counterexample (`SmallestSubset`, from the well-foundedness of strict
inclusion on finite sets). `ModAdd` says that a counter may wrap at each addition or
subtraction instead of once at the end.

### The synchronized queue

`SynchronizedQueueProofs` proves, from `SynchronizedQueueAssumption` (enqueuers,
dequeuers and closers are different threads, sizes and capacities are positive),
for any sets of threads, sizes,
capacities and modes:

| Theorem | Statement |
| --- | --- |
| `NoUnreachable` | `Spec => DequeueErrIsTotal` |
| `SlotSafety` | `Spec => []SlotIsExclusive` |
| `FlagSafety` | `Spec => []FlagIsUp` |
| `EnqueuersAreOwed` | `Spec => []SleepingEnqueuerIsOwedAWake` |
| `WaitSafety` | `Spec => []WaitInv` |
| `DequeuersAreOwed` | `Spec => []SleepingDequeuerIsOwedAWake`, if `OneAtATime` |

`OneAtATime` says that a dequeuer starts an operation only when no other dequeuer
is inside one. Only `DequeuersAreOwed` and the part of `WaitInv` it rests on need
it, and `two_dequeuers` shows that they do.

A sleeper that is owed a wake-up is not an inductive statement: nothing in it
says how the wake-up will find the sleeper. `WaitInv` adds

- who can be where in the code of the wakers (`SlotRoles`, `ListRoles`) and what
  the bits and the flag say of it (`SlotBits`, `ListFlag`): a notifier that finds
  `WAKING` may leave because somebody else is about to take the waker, one that
  finds `REGISTERING` because the dequeuer has not yet rechecked, and one that
  finds the flag down because the vector is empty or being drained;
- that whoever is past its registration can be reached: it stands in the slot or
  the vector, has its token, or is named by a wake-up being delivered
  (`DequeuerIsReachable`, `EnqueuerIsReachable`);
- that the debt begins when the thread decides to sleep, not when it sleeps: a
  dequeuer that found nothing at its recheck (`Settled`), an enqueuer that found
  no room at its own (`CouldEnqueue`), and from then on whatever makes the decision wrong is followed by a
  thread on its way to the waker (`DequeuerIsOwed`, `EnqueuerIsOwed`);
- that a dequeuer swaps only when nothing is due and so has something to return
  when it did (`SwapsOnce`), which is why a swap, that changes the room without
  waking the dequeuer itself, never ends in a sleep.

The proof first states what each action does to the position of its thread (the
`...Effect` lemmas), splits `Next` into the
steps that leave the wakers alone (`QuietStep`), registrations, notifications and
the steps inside the wakers, and preserves each conjunct over these cases.

### What is only model-checked

- The liveness properties `AcceptedIsLent`, `CloseEndsOperations`,
  `ValueEndsDequeue` and `EnqueuerIsWoken`: fairness and `ENABLED` are out of the
  prover's reach.
- The four violations, which are counterexamples.

## Not modelled

- Memory orderings weaker than sequential consistency: the relaxed load of
  `non_empty` in `WakerList::wake` and the relaxed stores of `dequeuing_length`
  deserve a weak-memory tool, which TLC is not.
- Panics of user code other than in `insert_into`: a destructor run by `clear`, a
  task waker run by `wake_all`, `check_overflow` inside the resize closure. The
  first and the last leave the dequeuing word locked, as in the `conflict` run.
- The length of the vector of `WakerList`, which grows by one waker for each
  timed-out or dropped enqueue until the next swap.
- `with_owned`, which replaces the reference a handle holds by an owner of the
  queue, and the zero-sized values that `try_enqueue` accepts without any access.
- `loom.rs`, `lib.rs`, `notify.rs` for `()`, and the formatting of errors: no
  state.
- A writer of bytes that fills less than it announced.
- `len`, `is_empty`, `capacity` and `is_closed`, which read the words the actions
  read and change nothing. `len` reads the capacity and the enqueuing word one
  after the other and so may pair those of two buffers during a resize. Values
  of more than `usize::MAX / 2` elements, whose size `try_reserve` shifts out of
  the word.

## Running

In this directory:

    tlc -config MCQueue_basic.cfg MCQueue
    tlc -config MCPackedWords.cfg PackedWords
    tlc -config MCWriteVectored_frames.cfg MCWriteVectored
    tlc -config MCSynchronizedQueue_waits.cfg SynchronizedQueueInvariant
    tlc -config MCSynchronizedQueue_blocking.cfg SynchronizedQueue
    for m in QueueProducer Queue QueueContent QueueBatch PackedWords \
             WriteBytes WriteVectored SynchronizedQueue; do
        tlapm ${m}Proofs.tla
    done

`tlapm` takes the lemmas of an extended module as proved, so each of the eight
proof modules is checked on its own: the three large modules of the queue take
about a quarter of an hour each, the others minutes or less.

`PROJECT.json` lists the runs with their modules and configurations, and maps
every definition to the lines it translates.
