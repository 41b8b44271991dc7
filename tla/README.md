# Verification of the synchronization layer of NPB-sync

The repository compares ways to pass data between threads: bounded queues that
move items in batches and change the size of the batches while they run, chunked
FIFOs, and promises.  They are exercised by three programs: `dedup` (PARSEC's
five-stage compression pipeline), `heat_cpu` and `lu`.  This directory holds TLA+
models of that layer, the TLC runs that check them and the TLAPS proofs about them.
Paths below are relative to `src/` of the repository unless they say otherwise.

## 1. Inventory

| component | source | state | operations | what is hard |
|---|---|---|---|---|
| Ring buffer | `naive_queue.hpp` 40-135, 385-574 | array, `_head`, `_tail`, `_n_elements`, `_size` | push, pop, resize in place | wrap-around, overlapping moves, refusal at the boundary |
| Naive queue | `naive_queue.hpp` | shared ring, mutex, two condition variables, count of terminated producers; per thread a local ring, its step, a pending request | push, pop, force_push, cross_pop, terminate, prepare_reconfigure | bulk transfers that do not fit, sleepers, unlocked requests |
| Observer | `naive_queue.tpp` | four atomic counters, two trigger flags, vectors of times | add_work_time, synchronization reports of two phases, trigger_reconfigure | unlocked counting, who triggers, late reporters |
| Smart FIFO | `smart_fifo.h` | linked chunks, reference counts, spinning semaphore | push and pop by chunk, view, terminate | reclaiming, termination against emptiness |
| FIFOPlus | `fifo_plus.{h,tpp}` | shared and local queues, gradient history | push, push_immediate, pop, reconfiguration | single notifications, unsigned differences |
| Promises | `promises/`, `promise_plus.*`, `naive_promise.h` | values, indices, base and step | set, get, set_step, set_immediate | batched visibility, step changed in flight |
| Heat and LU | `heat_cpu/`, `lu/` | one promise or counter per neighbour | wavefront loops | order of rows, first and last thread |
| dedup stages | `dedup/encode_*.cpp` | per stage: input, output and extra queues, reorder heaps | Fragment, Refine, Deduplicate, Compress, Reorder | cyclic waiting through bounded queues, order of chunks |
| dedup data | `dedup/{mbuffer,hashtable,tree,binheap,queue}.*` | reference counts, buckets, heaps | split, free, insert, search | shared buffers, duplicates found twice |
| The rest | scripts, generators, Lua, `lib/`, `dedup/openssl` | configuration | I/O | not modelled |

How they interact.  A stage thread owns one `NaiveQueueImpl` per queue it reads or
writes; all of them share a `NaiveQueueMaster`.  It calls `generic_push`, which calls
the `Observer` of that queue when it had to enqueue, and `add_work_time` after each
item.  The thread whose report is the last one wanted becomes the trigger: it computes
new steps and calls `prepare_reconfigure` on the local queues of all the other
threads, without a lock; each owner applies its request at the end of its next push
or pop.

What makes each part correct:

- *ring buffer*: it is a bounded sequence, whatever resize happens between two operations;
- *naive queue*: every item pushed is popped once, a producer's items in order; the end
  is reported only when nothing is left; nobody sleeps while there is work; a request
  is applied;
- *observer*: one trigger per phase, after enough reports, and never missed; every local
  queue is asked; the second phase measures what the first one set up;
- *smart FIFO, FIFOPlus*: the contract of the naive queue, plus chunks freed exactly once;
- *promises*: a `get` returns the value `set` for its index, and every value set becomes
  visible once the step is reached or the promise is flushed;
- *heat, LU*: a thread never reads a cell that is not final, and all cells are computed;
- *dedup*: chunks leave Reorder once and in sequence, data come before the fingerprints
  that stand for them, and the archive decodes to the file.

`PROJECT.json` lists the places where these can go wrong as hazards, with the
properties that watch them, or the reason why none does yet.

## 2. Modules

| module | what it is |
|---|---|
| `BoundedSeq` | abstract: a sequence bounded by a step that can be changed when the elements fit |
| `RingBuffer` | the array of the queues, with its cells, indices and moves; implements `BoundedSeq` |
| `RingBufferProofs` | types, the counter, and the refinement, for any number of cells |
| `Channel` | abstract: producers send numbered items, consumers claim batches and receive them; closing and ending |
| `NaiveQueue` | the shared buffer and all local ones, waits, termination, reconfiguration; implements `Channel` |
| `NaiveQueueProofs` | types, room to push, no lost wakeup, drained at the end, the refinement, the single request |
| `SmartFifo` | the chain of chunks, the two mutexes, the semaphore, timed pops, termination; implements `Channel` |
| `SmartFifoProofs` | types, exceptions, the semaphore, reference counts, and the refinement |
| `FifoPlus` | batches, single notifications, the two reconfiguration methods; implements `Channel` |
| `FifoPlusProofs` | types, which need the arithmetic of the reconfigurations, the notifications, and the refinement |
| `Observer` | counters, triggers and requests, driven by the loops of the stages |
| `ObserverProofs` | types, enough reports, a trigger neither missed nor doubled, order of the phases, the first push time |
| `DynamicStep` | `DynamicStepPromise` in all modes, with `set_step` at any moment |
| `DynamicStepProofs` | types, what is published is stored and stays published |
| `Stencil` | abstract: cells are computed in an order that respects what each of them reads |
| `Wavefront` | the parallel heat and LU kernels over six synchronisations; implements `Stencil` |
| `WavefrontProofs` | types, signals, order, and the safety part of the refinement |
| `Archive` | abstract: the decoded archive is a growing prefix of the file |
| `Chunking` | the serial computations: the cut of a file, the count of duplicates |
| `ReorderTree` | the heap and the tree in which Reorder keeps chunks that came early |
| `Encoder` | the threads and queues of the five `dedup` encoders; implements `Archive` |
| `EncoderProofs` | the cut of the file, types, fingerprints, the refinement, waiting chunks, sizes of arrays, no chunk lost, one compressed record per content |
| `MC*` | instances for TLC: model values, the functions constants are set to, symmetry |

### RingBuffer

`Push` and `Pop` are `push_local` and `pop_local`; `Ringbuffer::push` and `pop` are the
same code.  `Resize` is `resize`, its `memmove` calls being `Moved`, which reads all the
cells before it writes any.  `Cells` is the allocation (1000000 cells in the code, which
`resize` never enlarges): the model asks for steps below it.  `answer` is what the last
operation returned, so that the refinement speaks of answers too.

### NaiveQueue

One action per critical section of `_mutex` and one per stretch of a thread's own code
between two accesses to something shared.  Buffers are sequences, which `RingBuffer`
justifies.  A waiting thread is a member of `notEmpty` or `notFull`; a notification
empties the set, and the thread then evaluates its `while` condition again, as
`condition_variable_any::wait` in a loop does.

`pc` of a producer goes `ready`, `enqueue` when its local buffer is full, `check` for
the load of `_need_reconfigure`, `resize`, `clear`, and back; `flush` is `force_push`,
`terminate` the loop that empties the local buffer.  Between `resize` and `clear` the
thread has read `_new_step` but not yet stored false into the flag.  `WriteNewStep` and
`RaiseFlag` are the two stores of `prepare_reconfigure`, by some other thread at any
moment.  Consumers reconfigure with the item they are about to return still in the
buffer, as `pop` does.

### SmartFifo

The chain of chunks is a sequence; `_head` and `_tail` are positions in it, and chunks
the head has passed stay, with their reference counts (the code's `delete` is commented
out).  A chunk is private to its producer until it is linked, so `chunk[p]` is the
elements of `_chunk`; `Pieces` are the one or two chunks it becomes.  `push_chunk` is
three actions (`Link` with the mutex, `MoveTail`, `Post`), because consumers see what is
between them; `terminate_producer` adds `Finish` and `Last`.

A pop holds the consumers' mutex from `Lock` to `Return`, but producers run beside it,
so each load it makes is an action: `TestEmpty` and `TestTerminated` are the condition
of the first loop, in the order the code evaluates it, `TestDrain` and `Drain` that of
the second, `Take` is `FIFOChunk::pop` and `Advance` the move to the next chunk.  `Read`
is one `next()` of the ranges a pop returned.  `Prepare` gives back the chunks of the
previous pop, and after a timeout does it again, as the recursive call does.

The semaphore spins: it subtracts what it wants, looks at what there was and adds it
back.  Only one consumer can be there, and producers never read the value, so its wait
is one action (`Wait`), enabled when the loop would end, or `Timeout`.

### FifoPlus

A critical section of `_m` is an action: `push` (the local append, and if the quantity
`_n` is reached the reconfiguration and `_transfer`), `push_immediate`, `transfer`,
`terminate`, `pop`.  `Give` is the part of `pop` that hands out what the consumer holds.
`_transfer` wakes one member of `Sleepers`, the last `terminate` all of them.

Both reconfiguration methods are arithmetic on the state and are modelled in full:
`_reconfigure_producer_gradient` looks at the last events of all producers,
`_reconfigure_phase` heats the quantity up to its limit.  The multipliers are integers in
percent; truncation to an integer is the code's.  The counts whose difference gives the
gradient are unsigned, so with fewer empty than full buffers it is about 2^32: `wraps`.
In the running phase the gradient is always COHERENT, so the cooling phases of the code
are never entered and have no action.  `_n` of a consumer never changes, because the
function that would change it is empty.

### Observer

A thread loops like a stage: push or pop, reconfigure, report its work.  A report is the
`fetch_add` (`CountFirst`, `CountSecond`), then what follows it (`RecordFirst`), then
perhaps `Trigger` (the compare-exchange) and one `Prepare` per local queue, in any order,
since the map they are in is ordered by address.  How much a thread's buffer holds is a
number: an enqueue leaves any smaller amount, a dequeue brings any positive one.  The
steps that `compute_steps` would return are the constants `FirstStep` and `SecondStep`;
the first is positive, as the code makes it, the second may be 0.  The reconfiguration
by the owner is one step; the race inside it is checked in `NaiveQueue`.

### DynamicStep

The mode, a template parameter of the code, is a set of bits: who calls `set_step`, and
`unblock` if a smaller step publishes at once.  `values` is what is stored, `strong` the
published index, `current` the announced one, `weak` a consumer's copy.  Each access to an
atomic is an action: `set` is `StoreValue`, `StoreIndex`, `LoadStrong`, `Decide` and
perhaps `StoreStrong`; `set_step` is `CallSetStep`, then with `unblock` `CompareSteps`,
`LoadCurrent`, `CompareIndices`, `UnblockConsumers`, and `ChangeStep`.  `_step_m` is taken
where `RequiresLockV` says so.  The producer calls `set` for all indices but the last and
`set_immediate` for that one.  The differences of indices are compared with an unsigned
step, so a negative one is large: `AtLeast`.  With a timer the producer itself asks for
twice its step or two thirds of it, whatever the times were.

### Wavefront

A team of threads, each with a block of the matrix; in each iteration (or for each row) a
thread waits for its left neighbour, computes, and signals the right one.  `kernel` is
the synchronisation, chosen by `Init`: the flag and the counter of `heat_cpu/main.cpp`,
arrays of `NaivePromise<void>`, a promise per iteration, `ActiveStaticStepPromise<void>`
(its shared index, the producer's and the consumer's copies), and `kernel_lu_omp_pp`.
A cell is a row of a thread's block in an iteration, or a step of the elimination on the
rows of a rank; `Reads` is what `update_matrix`, or that step, reads.  Each access to a
shared flag, counter or index is an action; `update` computes one cell.

### Encoder

Fragment, Refine, Deduplicate, Compress and Reorder, for `encode_default.cpp`,
`encode_naive_queue.cpp`, `encode_smart.cpp` with and without `REORDER_WRITE_AHEAD`, and
`encode_fifo.cpp`; `encoder` is chosen by `Init`.  Each stage of each encoder is an action
of its own (`FragmentDefault`, `DeduplicateNaiveQueue`, ...), made of the steps they share.
A queue is a bounded sequence (not bounded for the smart FIFO and FIFOPlus); a thread has
a local buffer per queue and a list `todo` of queue operations it is committed to:
`enqueue`, `drain`, `end` and `close` are one enqueue, a flush in as many enqueues as it
takes, the count of a terminated producer, and `terminate`, which is the last two.  That these operations behave so is what `NaiveQueue`, `SmartFifo` and
`FifoPlus` show.  `CrossPop` is the pop of Compress that times out and flushes its
output.

A fine chunk is its two numbers, its content and whether it is a duplicate; `state` is
what the hash table holds for a content.  Reorder keeps chunks that come early in a tree
of heaps, knows the number of fine chunks of a coarse one from the last of them
(`perAnchor`), and writes with `write_chunk_to_file`, which waits until the data are
compressed.  `encode_smart.cpp` without write-ahead leaves the writing to the main thread
after the join.  `Decode` is what `decoder.cpp` makes of the archive.

## 3. Runs

| run | instance | shows |
|---|---|---|
| `ring_buffer` | up to 6 cells, two values | `TypeOK`, `ImplementsBoundedSeq`. Six cells allow every arrangement of the two indices and overlapping moves by one to three cells, in both directions |
| `naive_queue` | 2 producers of 2 items, 2 consumers, shared capacity 1, steps 3, a request of 2 per thread, spurious wakeups | batches larger than the shared buffer; requests accepted with one item in the local buffer, refused with two and tried again. `TypeOK`, `NoLostWakeup`, `RequestTakesEffect`, `EndMeansDrained`, `ImplementsChannel` |
| `resize` | 1 producer of 4 items, 1 consumer, steps 3 and 2, requests among 0, 1, 2, 4, two per thread, fair threads | growth to 4, the producer's reduction from 3 to 2, refused reductions, step 0. `RoomToPush`, `ImplementsChannel`, `EveryThreadReturns` |
| `observer_phantom` | 1 producer, 1 phantom, 1 consumer, two reports wanted, steps 3, the producers asked to grow to 4 and the consumer to shrink to 2, fair threads | `EnoughReports`, `TriggeredOnce`, `PushTimeKnown`, `SecondPhaseFollowsFirst`, `EveryQueueReconfigured`, phantoms included; the consumer refuses while it holds two items or more |
| `smart_producers` | 2 producers of 2 items in chunks of 1, 1 consumer that takes 2 | links of one, two and no elements, premature pushes. `TypeOK`, `NeitherThrows`, `ImplementsChannel` |
| `smart_consumers` | 1 producer of 3 items in chunks of 1, 2 consumers that take 3, then 1, one with timeouts, fair threads | ranges over several chunks, chunks two consumers read at once, retries. `WaiterIsReleased`, `ReferencesBalanced`, `ImplementsChannel`, `EveryThreadReturns` |
| `fifo_plus` | producers of 4 and of 1 items, 2 consumers that take 2, both methods, quantities 1 to 2 and past it, fair threads | batches of changing sizes against sleepers woken one at a time. `TypeOK`, `SomebodyComes`, `ImplementsChannel`, `EveryThreadReturns` |
| `encoders` | 1 Fragment, 2 Refine, 2 Deduplicate, 1 Compress, 1 Reorder with two queues, the file `a b a b a`, capacities 1 and 5, steps 1 and 2, fair threads | all five encoders. `TypeOK`, `ArraysSuffice`, `FingerprintsFollowData`, `NumbersAgree`, `WaitedChunkIsOnItsWay`, `ImplementsArchive`, `EveryStageReturns` |
| `wavefront` | 3 threads, 3 iterations, 4 rows (rows 1 to 3 in the heat kernels, a matrix of order 4 in LU), steps 1 to 3, fair threads | all six synchronisations. `SignalsMeanWork`, `ComputesInOrder`, `ImplementsStencil` with its liveness |
| `dynamic_step` | all modes but one, 5 values, steps among 0, 1, 3, 7, up to 3 changes, fair threads | `TypeOK`, `PublishedIsStored`, `PublishedNeverMovesBack`, `EveryGetReturns` |
| `lost_request` | two requests to one thread | violates `RequestTakesEffect` |
| `step_taken_back` | the mode left out of `dynamic_step` | violates `PublishedNeverMovesBack` |

Deadlock is checked where the model stutters explicitly at the end or never ends
(`RingBuffer`, `NaiveQueue`, `SmartFifo`, `Observer`).  The threads of `FifoPlus`,
`Encoder`, `Wavefront` and `DynamicStep` end, so their runs do not check it; a liveness
property does.  Symmetry is used only where no liveness is checked.

Bounds.  `N` (items per producer), `MaxRequests` and `MaxChanges` are guards of the
models, not of the code.  Two items exceed a shared buffer of one and fill a local one that
was reduced to two, so batches are split, producers meet a full buffer, and local buffers
that were not reduced are flushed before they are full; four items let a buffer of three
fill more than once.  A request fits only if fewer items than the new step are left, and at
each check a consumer holds at least the one it pops, so reductions go to 2: one to 1 is
refused for ever (see below).  One request per thread is what
one trigger makes; two are what the two phases make.  `SpuriousWakeup` may happen at any
time and any number of times where `Spurious` is set.  The counters of `Observer` stop by
themselves, because a thread whose report is refused stops reporting.  In `SmartFifo` two
items in chunks of one make a chunk overflow into a second one; three let two consumers
hold ranges while more arrives.

In `fifo_plus` unequal loads let one producer terminate while the other still
reconfigures, and four pushes are enough for each gradient that either reason can have, the
one whose difference wraps among them.  In `encoders` the file is cut into three coarse chunks (of
one, three and one fine chunks), one coarse chunk
straddles two reads of the file, both Deduplicate threads meet the content `a`, and
chunks reach Reorder from two queues out of order.  `chunks_per_anchor` starts with one place
(1024 in the code), so it is doubled twice when the coarse chunks come in order, and the
third may come before the second, which one doubling does not reach: the exception
`ArraysSuffice` states.  No guard of the model looks at the length of that array, so the other
properties are checked on the very behaviours a longer array gives.  In `wavefront` the thread in the
middle has both neighbours, three iterations let a flag be raised, lowered and raised
again, and steps of 2 and 3 leave rows that only the last call publishes.  In
`dynamic_step` a step of 7 is past the number of values and is cut; a consumer's `get`
changes nothing that another thread reads, so one consumer is enough.

The two violations are disagreements between the code and its comments:

- *lost request* (`naive_queue.hpp` 896-901).  The owner reads `_new_step`, resizes, and then
  stores false into `_need_reconfigure`.  A second `prepare_reconfigure` in between is
  erased.  With one request per thread, the `naive_queue` run shows that none is lost.
- *step taken back* (`dynamic_step_promise.tpp` 148-167).  When only consumers call
  `set_step` and it unblocks, no lock is taken.  It loads the announced index; the
  producer announces and publishes later ones; the difference of the two, now negative,
  is compared with an unsigned step, and the old index is stored over the new one.  The
  header (140-143) gives the mutex the task of preventing just this, but `RequiresLockV`
  (72-76) leaves the mode out.

Other disagreements were met while reading and have no run of their own:

- *refused push* (`naive_queue.hpp` 434-437 against 894-906).  The comment says that push
  will forcibly enqueue when its resize is refused; the loop that did is commented out,
  and push leaves the request for its next call.
- *refused pop* (`naive_queue.hpp` 434-442 against 698-714).  A pop resizes while the element
  it will return is still in the buffer.  A request for a step of 1, which is what the
  trigger makes of a computed 0, finds at least that one element every time and is
  refused for ever; "until space is available" never comes.
- *untimed producer* (`naive_queue.hpp` 836-841).  A producer learns that the first phase is
  over when one of its reports is refused, and turns to the second phase only if its
  queue is not reconfigured yet.  If a consumer triggered, the request reached the
  producer and it applied it first, it stops timing: the second phase then lacks its
  reports and may never start.
- *one doubling* (`encode_naive_queue.cpp` 594-607; the other encoders have the same code).
  "Double size of sequence number array if necessary" is done once for a chunk.  Of a file
  cut into more than twice the first length, that is into more than 2048 coarse chunks, the
  last fine chunk of a coarse one whose number is twice the length or more may arrive first;
  its count is then written outside the array.  `ArraysSuffice` names this case, and in
  `encoders`, where the first length is 1, it happens.
- *pop_copy* (`smart_fifo.h` 416-421).  The end of the stream is reported as no element, not
  prepared: the condition on which `pop_copy` throws.  The test that calls it
  (`tests/smart_fifo/smart_fifo.cpp` 22-25) expects an empty optional; `pop`, which the
  encoder uses, does not throw.
- *limits of the gradient* (`fifo_plus.h` 74 and 78).  `_min` and `_max` are described as the
  bounds of the quantity; the gradient method (`fifo_plus.tpp` 237, 256) multiplies
  without looking at them.  `FifoPlus` therefore states no upper bound.

What the runs made explicit.  A pop of the smart FIFO that times out, called with ranges
already read, clears them twice, and their chunks' counts fall too low: with timeouts
`ReferencesBalanced` only says that the counts are never too high.  The double decrement
has no effect while `delete this` stays commented out.  `PushTimeKnown` (that
`std::min_element` at `naive_queue.tpp` 239 has something to look at) depends on the step:
a local queue must fill up before the work reports alone reach their count, that is
`InitStep < 2 * FirstN`; at `InitStep = 2 * FirstN` TLC finds it violated.
`EveryQueueReconfigured` is checked for producers asked to grow and a consumer asked to
shrink to 2, which succeeds when one item is left.  A request to shrink a
producer's queue is refused while as many elements as the new step are left after each
enqueue, which depends on how full the shared buffer is and need not end in the model; a
second request of 0, which the second trigger does not exclude, can overwrite a first one
not applied yet and is refused for ever.

`EveryStageReturns` has two cases.  If the queues have room for all the chunks of the
file, every encoder ends and the archive decodes to the file.  If they have less, the
pipeline can stop for good: Reorder takes from its queues in turn and blocks on one,
while the stage that would fill it is stuck, through other full queues, behind one
Reorder does not look at.  The property says that nothing else can stop it: whenever the
threads do not end, Reorder is starved in this way.

Fairness.  `FairSpec` asks weak fairness of each thread's own code: threads are
preempted, never stopped, and a mutex that is released for ever more is eventually
acquired.  Nothing is asked of the observer in `NaiveQueue` (nobody has to reconfigure),
of whoever calls `set_step` in `DynamicStep` (only a call that has begun is finished), nor
of spurious wakeups.  In `SmartFifo` the same fairness suffices: each consumer pops
finitely often, and a pop that has timed out is tried again without a timeout.  In
`FifoPlus` a waiting consumer is not enabled until it is woken.  In `Wavefront` and
`DynamicStep` the waits are spinning loops, modelled as an action enabled when the loop
would end: the condition, once true, stays true until the waiting thread itself goes on,
so weak fairness is enough.  In `Observer` a thread always has a next item, which is what
the stages of a large input look like; on a short input the program ends before the
trigger and nothing is claimed.

Every property of a passing run has a mutant, an operator beside the definition it
replaces, marked "Mutated form"; each is a change a programmer could make in that code.

## 4. Proofs

The theorems hold for every value of the constants allowed by the named assumptions.

- **RingBuffer**, for any number of cells.  `TypeOK /\ CounterAgrees` is inductive: which
  cells a resize moves is decided by the counter, so the counter must be known to agree
  with the indices.  For `ImplementsSequence`, lemmas describe `Contents` after a push, a
  pop, a move to the base and a move of the wrapped part; each concrete step is then a
  step of `BoundedSeq` or stutters.
- **NaiveQueue**, for any finite set of producers (at least one) and any consumers, positive
  capacity and initial steps, requests of any natural number.  `Inv` adds to the
  properties what the position of a thread says of its local buffer: there is a free place
  everywhere between an enqueue and the next push (`ProducerBuffers`), and a consumer
  reconfigures only with an item in hand (`ConsumerBuffers`).  The first gives
  `PushNeverDrops`: an enqueue that returns has moved at least one element, because it
  waited until the shared buffer had room, and an accepted resize leaves a free place.
  The counter equals the number of producers that are done, so the last one to terminate
  is known to be last; that gives `DrainedAtTheEnd`.
  `NaiveQueueImplementsChannel` adds the order (`InOrder`): the items of a producer ascend in
  the shared buffer, which precedes its local buffer, and none is newer than its last push.
  The unclaimed items of `Channel` are then those of the shared and the producers'
  buffers, and what an enqueue or a dequeue moves is found on the other side.
  `SingleRequestTakesEffect` has the hypothesis `MaxRequests <= 1`, because a second request
  can erase the first (the run `lost_request`).  Its invariant `OneRequest` says that a
  thread past its load of the flag works on the only request ever made to it.
- **FifoPlus**, for any finite set of producers, any consumers and any limits, and
  multipliers that raise (at least 100 percent) and lower (at most 100).  `TypeCorrect` is
  mostly arithmetic: a raise keeps a positive quantity positive, a reduction is cut at 1,
  and the quantity of the phase method is a hundredth of an exact value that is never
  below 100 (`Exact`).  A quantity of 0, which truncation alone would reach, would stay 0
  for ever, because no factor raises it.
  `SomebodyComes` is inductive together with the types and the counter of producers that
  are done: a consumer sleeps only when it found the buffer empty, and a batch that fills
  it wakes one.  `FifoPlusImplementsChannel` uses `InOrder` as above, and `Emptied`: a
  producer that terminates or has terminated, and a consumer that waits or was told the
  end, holds nothing.
- **SmartFifo**, for any finite sets of producers and consumers, any steps
  and numbers of items.  `Inv` says who is between which statements (`Places`, `Exclusion`:
  the two mutexes), where the chain ends while `_tail` is being moved (`Linked`), that a
  producer that links elements has something to post (`Announced`), and what each position
  of a pop knows of the head chunk (`Looks`), which nobody else moves or empties although
  producers link behind it.  From the last part follow `SharedPartNeverThrows` (`Take` never
  meets an empty chunk, `Advance` always finds a next one) and `WaiterIsAlwaysReleased`:
  whoever reached the semaphore while elements were left had looked before they were
  linked, so their credit is in the semaphore or with a producer between its link and its
  post (`Heralded`).
  `Refs` is inductive beside it: the users of a chunk are the chain, from the head on, and
  the ranges consumers hold, counted as the pairs (consumer, place) so that the
  cardinality changes by one with each reference.  `SmartFifoImplementsChannel` maps claimed
  items to the ranges not read yet; its invariant `Chan` says that chunks ascend along the
  chain and before the producers' own ones, that what the head has passed is empty, and
  that a consumer that looks for elements, or was told that there are none, holds none.
- **Observer**.  `Inv` says of a thread between its `fetch_add` and its decision that the
  counter has passed the count it holds, and of a thread about to trigger that both
  sides are done.  `AlwaysTriggeredOnce` follows, for its first half because the reporter that
  counts second reads the other counter after its own increment; for the second half a
  thread that goes through the queues has found the flag of its phase false and set it
  (`AskersTriggered`), and nobody sets it back.  `TriggerKnowsPushTime` is proved
  for `InitStep < 2 * FirstN` and at least one producer; TLC finds it violated at
  `InitStep = 2 * FirstN`.  While no producer has timed a push, none has filled its buffer, so
  none has made more than `InitStep` work reports, and the counter (`ReportsCounted`) stays
  below the number that would trigger.
- **DynamicStep**, for any number of values, any steps and any number of changes.  What is
  stored goes up to the producer's index, and no index the promise or a caller inside
  `set` or `set_step` holds is above it (`NoIndexAhead`); the indices callers have loaded
  belong to the invariant, because they are stored later.  That gives `ValuesPublished` in
  every mode.  `PublishedKept` needs more (`CurrentBounds`: with `unblock` the published index
  is at most the announced one) and the assumption `NoUnlockedUnblock`, that the mode of
  the run `step_taken_back` is not among `Modes`.
- **Wavefront**, for any team of at least two threads, any number of iterations and rows
  and any positive step.  A thread has computed the cells behind it (`OwnDone`); a flag
  counts the iterations its owner has signalled and the neighbour has not entered
  (`FlagsInv`), and the counters, promises and indices are bounded in the same way by where
  their owner is.  In the LU kernel a rank signals step `k` before it works on it, so an
  index promises the steps before it, and through the chain of signals those of all ranks
  on the left (`IndexInv`).  `SignalsTrue`, `InOrder` and `ImplementsOrder`, the safety part
  of the refinement, follow.
- **Encoder**, for any file, anchors and read size, any finite number of threads wired as
  `WiringAssumption` says, any positive steps and capacities, and each of the five encoders.
  The assumption is what `_Encode` builds from a configuration that makes sense, since the
  code does not check it: each stage has the queues it uses; the queues
  form four groups, one between each stage and the next, because each call of `alloc_queues`
  makes those of one layer; a thread has a queue once in each of its maps, which are
  `std::map`s; and every queue that is filled has a reader, without which what is put into
  it would be lost.
  - `CutsMakeTheFile`: the scan of `FragmentNumbers` ends with coarse chunks numbered in
    order, none empty, that are together the file.  The scan is a recursive function on
    numbers; a property of its steps that the first one has and each one hands on is shown
    for all of them from the least number without it, for which the theorems on well-founded
    relations that need no operator suffice.  The number of iterations is shown to be
    enough: each one reads or cuts, and neither can happen more often than the file has
    chunks.
  - `Inv`: every coarse chunk anywhere is one of the cut, every fine one is at its place in
    the file with the right content (`Stages`), in the tree of Reorder too, and what
    Reorder knows of a coarse chunk is its true number of fine ones (`Cache`); what is
    written is the file up to `next` (`Written`); and a content marked flushed is in the
    archive with its data (`Traced`).  `TypeCorrect`, `FingerprintsAlwaysFollow` and
    `EncoderImplementsArchive` follow; for the last, `ReadBack` says that decoding gives back
    as many chunks of the file as the archive has entries.
  - `Ways`, beside it: each content the hash table has and that is not compressed is carried
    by the chunk that brought it there, in a buffer of its Deduplicate, a queue or a buffer
    of a Compress.  That gives `WaitedChunkAlwaysOnItsWay`: Reorder never waits for a chunk
    that everybody has let go.
  - `Room`, beside it: a local buffer never holds more than a step.  An enqueue that the queue
    takes only partly leaves chunks behind, so the bound is not inductive: a full buffer is
    about to be emptied by an operation in `todo`, or its thread adds nothing more
    (`Relieved`); `BuffersAlwaysSuffice` is the result.  `ArraysAlwaysSuffice` adds
    `chunks_per_anchor`, for files of any length: Reorder goes past a coarse chunk only when
    it has written its count (`PassedKnown`), so as long as all counts are inside the array it
    is at most as far as the array is long, and a number one doubling does not
    reach is at least twice the one it waits for.  `AnchorsAlwaysInside` excludes the
    exception by the hypothesis `Len(Cuts) <= 2 * InitAnchors` (2048 coarse chunks in the
    code).
  - `Lossless`, beside `Inv`: no chunk of the file is lost.  `Steps` says that a thread that
    leaves its loop has every buffer that holds something, and then the end of its queues,
    in `todo`, and that a queue is open at least as many times as there are threads that have
    not terminated it.  `Flow` says who holds chunks: a thread that left holds only those it
    is about to drain, it left only when its queue had ended, and what is in a queue has a
    reader.  `Missed` says that of Reorder, which asks all its queues in turn and gives up
    after as many misses in a row as it has queues.  `Kept` then says of each place of the cut
    that the archive has passed it or that a chunk for it is in some buffer, queue or hand, or
    in the tree; a coarse chunk stands for all the fine ones Refine will make of it.  When all
    threads are done nothing can be around (`NothingLeft`), so `WholeFileWritten` follows: the
    archive has the length of the file and decodes to it.  The refinement of `Archive` says
    that what is written is right, this theorem that nothing is missing.
  - `Unique`, beside them: in the buffers and queues towards Compress every chunk has a
    content of its own that is not compressed yet, so that no two compress the same data and
    none is compressed again; contents of written chunks are flushed, and no content has two
    records with data.  With the chunks that `Lossless` finds in the archive, the
    records with data correspond one to one with the contents of the file
    (`OneRecordEach`), which gives `NumbersAlwaysAgree`.

With these, each safety property the passing runs check has a theorem (`ImplementsStencil`
for its safety part).  Only model-checked are the liveness properties, `ImplementsStencil`'s
liveness among them, which are out of the prover's reach together with everything that needs
ENABLED.
That Reorder never ends in `mismatch`, which would stop it before it is done, is part of
`EveryStageReturns` and has no proof: it needs that a heap returns its minimum and that no
chunk is in two places, in the tree of Reorder above all.  That the heap of `ReorderTree` returns
its minimum is checked through `EveryStageReturns`: it is recursive over data, for which
the induction theorems cannot be instantiated.  The refinement of `Archive` does not
rest on it, because Reorder compares the number of whatever the heap returns.

## 5. Abstractions

- Memory is sequentially consistent.  The release store and acquire load of
  `_need_reconfigure` order `_new_step`; the plain accesses to `_new_step` that can race
  are interleaved, not torn.  `CounterSynchronizer` passes orders to atomic loads and
  stores that the standard does not allow for them, and `set_step` without the lock
  publishes with a relaxed store; both are taken as ordered.
- Time is absent: the measurements, their averages and `compute_steps` are parameters.
  The assertions that a measurement is not 0 are not modelled.  A timeout may happen
  whenever the code waits with one.
- `trigger_reconfigure` reads vectors other threads may be growing; that race has no
  outcome to enumerate and is listed as a hazard only.
- A count written outside `chunks_per_anchor` (see *one doubling* in section 3) is undefined
  behaviour of the code, and whatever it overwrites is not part of the model, which keeps
  the count as if it were inside.  What the runs and theorems say of the archive therefore
  holds of the code as long as that does not happen: for every file of at most 2048 coarse
  chunks, and for a longer one if no chunk comes so far ahead.
- Allocation failure and files that cannot be read or written are not modelled.
- A content is a string and its SHA1 at once: collisions are left out, as the code leaves
  them out.  Fragment's anchors are places in the file; what a Rabin fingerprint is
  computed from does not matter to the stages.
- The stages of the naive, smart and FIFOPlus encoders terminate the first of their output
  and extra queues only.  `Inputs`, `Outputs` and `Extras` of the instance give them one
  each; with several the others would stay open.
- `_Encode` of `encode_fifo.cpp` is commented out as a whole, so the wiring of its threads
  is that of the naive queues.
- `kernel_lu_omp_pp` with one thread indexes its promises out of bounds (`lu.tpp` 39-41);
  `TeamAssumption` asks for two.

## 6. Not modelled, and why

- The passive promises and `promises/naive_promise`: no kernel builds one with values.  The
  wait of the passive `get` (`static_step_promise.tpp` 29) is inverted; it is listed as a
  hazard.
- `kernel_lu_solve_pp`: its calls of `set` are commented out, so that it would block for
  ever on more than one thread; the sequential kernels have no state to share.
- `mbuffer.cpp`: reference counts under locks of their own, to come.  The stages only need
  that data live as long as a chunk that refers to them.
- The buckets, locks and growth of `hashtable.cpp`: `sub_Deduplicate` holds the lock of the
  bucket around search and insertion, which is the one action of the model.
- The bytes of Rabin, SHA1 and the compressors; file formats.
- `POP_NO_WAIT` of FIFOPlus, `pop_copy`, `shared_transfer`, `FAST_ONE_CONSUMER`: nothing in the
  programs calls them in the modelled configurations.
- Lua bindings, scripts, generators, logging, test programs and vendored libraries:
  configuration and I/O.

## 7. Plan

What is left, in this order:

1. That Reorder never ends in `mismatch`: `Kept` says that a chunk for the next place is in
   the tree by then; what is missing is that a heap has its minimum at the root and that the
   tree has no chunk the archive has passed.
2. `Mbuffer`: split and free of shared buffers by two stages.
3. A bound on how far the queues let the stages run ahead of Reorder, which would tell for
   which capacities the exception of `ArraysSuffice` cannot happen in a file of any length.
