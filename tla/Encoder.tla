-------------------------------- MODULE Encoder --------------------------------
(***************************************************************************)
(* The pipelines of src/dedup: Fragment cuts the file into coarse chunks,  *)
(* Refine into fine ones, Deduplicate sends the first chunk of a content   *)
(* to Compress and the others to Reorder, Compress sends its chunks to     *)
(* Reorder, and Reorder writes them in the order of the file.  Five        *)
(* encoders share this structure and differ in their queues and stages:    *)
(*   "default"      encode_default.cpp                                     *)
(*   "naive"        encode_naive_queue.cpp                                 *)
(*   "smart", "smart ahead"   encode_smart.cpp, without and with           *)
(*                  REORDER_WRITE_AHEAD                                    *)
(*   "fifo"         encode_fifo.cpp                                        *)
(* A queue is a shared sequence; its threads fill a buffer of their own    *)
(* (send) before they enqueue it and empty one (recv) they dequeued.  One  *)
(* critical section is one action.  What happens inside the queues is in   *)
(* NaiveQueue, SmartFifo and FifoPlus.                                     *)
(***************************************************************************)
EXTENDS Integers, Sequences, FiniteSets, FiniteSetsExt, Chunking, ReorderTree

CONSTANTS
    Encoders,      \* the encoders to run, one of which Init chooses
    Fragmenter, Refiners, Dedupers, Compressors, Reorderer,    \* the threads
    Inputs, Outputs, Extras,   \* the queues of each thread, in the order of its maps
    Step,          \* Step[t]: chunks a thread moves at once
    Capacities,    \* capacities of the bounded queues, one of which Init chooses
    RowLimit,      \* row_limit of DeduplicateNaiveQueue
    InitAnchors    \* first length of chunks_per_anchor

Threads == {Fragmenter, Reorderer} \cup Refiners \cup Dedupers \cup Compressors
Queues == UNION {{qs[t][i] : i \in DOMAIN qs[t]} : t \in Threads, qs \in {Inputs, Outputs, Extras}}
Contents == {File[i] : i \in DOMAIN File}

\* What Fragment sends, and what all others do
Coarse == [l1 : Nat, data : Seq(Contents) \ {<<>>}]
Fine == [l1 : Nat, l2 : Nat, last : BOOLEAN, data : Contents, isDuplicate : BOOLEAN]

CoarseQueues == {Outputs[Fragmenter][i] : i \in DOMAIN Outputs[Fragmenter]}
Packets(q) == IF q \in CoarseQueues THEN Seq(Coarse) ELSE Seq(Fine)

\* The queues some threads have, and those between two stages, which alloc_queues makes for them
QueuesOf(qs, threads) == UNION {{qs[t][i] : i \in DOMAIN qs[t]} : t \in threads}
ToDeduplicate == QueuesOf(Outputs, Refiners)
ToCompress == QueuesOf(Outputs, Dedupers)
ToReorder == QueuesOf(Outputs, Compressors) \cup QueuesOf(Extras, Dedupers)
Between == <<CoarseQueues, ToDeduplicate, ToCompress, ToReorder>>

\* No queue is between other stages as well, or twice in a map of a thread; what a thread puts
\* chunks into is what another thread takes them from.
ASSUME WiringAssumption ==
    /\ Fragmenter \notin Refiners \cup Dedupers \cup Compressors \cup {Reorderer}
    /\ Reorderer \notin Refiners \cup Dedupers \cup Compressors
    /\ Refiners \cap (Dedupers \cup Compressors) = {} /\ Dedupers \cap Compressors = {}
    /\ IsFiniteSet(Threads)
    /\ Inputs \in [Threads -> Seq(Queues)] /\ Outputs \in [Threads -> Seq(Queues)]
    /\ Extras \in [Threads -> Seq(Queues)]
    /\ Outputs[Fragmenter] # <<>> /\ Inputs[Reorderer] # <<>>
    /\ \A t \in Refiners \cup Dedupers \cup Compressors : Inputs[t] # <<>> /\ Outputs[t] # <<>>
    /\ \A t \in Dedupers : Extras[t] # <<>>
    /\ Inputs[Fragmenter] = <<>> /\ Outputs[Reorderer] = <<>>
    /\ \A t \in Threads \ Dedupers : Extras[t] = <<>>
    /\ \A g, h \in 1..4 : g # h => Between[g] \cap Between[h] = {}
    /\ \A t \in Threads, qs \in {Outputs, Extras} :
          \A i, j \in DOMAIN qs[t] : i # j => qs[t][i] # qs[t][j]
    /\ QueuesOf(Inputs, Refiners) \subseteq CoarseQueues
    /\ QueuesOf(Inputs, Dedupers) \subseteq ToDeduplicate
    /\ QueuesOf(Inputs, Compressors) \subseteq ToCompress
    /\ QueuesOf(Inputs, {Reorderer}) \subseteq ToReorder
    /\ CoarseQueues \subseteq {Inputs[t][1] : t \in Refiners}
    /\ {Outputs[t][1] : t \in Refiners} \subseteq {Inputs[t][1] : t \in Dedupers}
    /\ {Outputs[t][1] : t \in Dedupers} \subseteq {Inputs[t][1] : t \in Compressors}
    /\ {Outputs[t][1] : t \in Compressors} \cup {Extras[t][1] : t \in Dedupers}
          \subseteq QueuesOf(Inputs, {Reorderer})

ASSUME SizesAssumption ==
    /\ Step \in [Threads -> Nat \ {0}] /\ Capacities \subseteq Nat \ {0}
    /\ RowLimit \in Nat \ {0} /\ InitAnchors \in Nat \ {0}

Feeds(t, q) == \E qs \in {Outputs, Extras} : \E i \in DOMAIN qs[t] : qs[t][i] = q

VARIABLES
    encoder, capacity,   \* chosen at the start
    queue, open,         \* the shared queues; their producers that have not terminated
    send, recv,          \* the local buffers, per thread and queue
    inHand,              \* coarse chunks still to be sent (Fragment), or fine ones (Refine)
    turn,                \* qid, queue_pos, queue_id: the queue of a round robin
    row,                 \* last_was_compressed and in_a_row
    pc, todo,            \* where a thread stands, and the queue operations it is to do
    state,               \* header.state of the chunk the hash table has for a content
    tree, perAnchor, maxAnchors, next, hold, \* Reorder
    misses,              \* ended queues Reorder met in a row
    archive              \* the output file

stages == <<queue, open, send, recv, inHand, turn, row, pc, todo>>
writer == <<tree, perAnchor, maxAnchors, next, hold, archive>>
vars == <<encoder, capacity, stages, state, writer, misses>>

Bounded == encoder \in {"default", "naive"}
Smart == encoder \in {"smart", "smart ahead"}

\* FragmentSmart reaches the barrier when it is done: the other threads wait for it.
Init == /\ encoder \in Encoders
        /\ capacity \in IF Bounded THEN Capacities ELSE {Len(File) + 1}
        /\ queue = [q \in Queues |-> <<>>]
        /\ open = [q \in Queues |-> Cardinality({t \in Threads : Feeds(t, q)})]
        /\ send = [t \in Threads |-> [q \in Queues |-> <<>>]]
        /\ recv = [t \in Threads |-> [q \in Queues |-> <<>>]]
        /\ inHand = [t \in Threads |-> IF t = Fragmenter THEN FragmentNumbers ELSE <<>>]
        /\ turn = [t \in {Fragmenter, Reorderer} |-> 1]
        /\ row = [t \in Dedupers |-> [compressed |-> FALSE, n |-> 0]]
        /\ pc = [t \in Threads |-> IF Smart /\ t # Fragmenter THEN "barrier" ELSE "run"]
        /\ todo = [t \in Threads |-> <<>>]
        /\ state = [c \in Contents |-> "absent"]
        /\ tree = TreeMakeEmpty
        /\ perAnchor = [l1 \in {} |-> 0]
        /\ maxAnchors = InitAnchors
        /\ next = [l1 |-> 0, l2 |-> 0]
        /\ hold = <<>>
        /\ misses = 0
        /\ archive = <<>>
--------------------------------------------------------------------------------
(* Queue operations *)

Least(m, n) == IF m < n THEN m ELSE n
First(n, s) == SubSeq(s, 1, n)
Rest(n, s)  == SubSeq(s, n + 1, Len(s))

Idle(t) == pc[t] = "run" /\ todo[t] = <<>>

\* "enqueue": once; "drain": until the buffer is empty; "end": terminate; "close": the last two.
\* The chunks go from the buffer kept for one queue to another if Fragment uses one for all.
Operations == {o \in [op : {"enqueue", "drain", "close", "end"}, from : Queues, to : Queues] :
                  o.from \in CoarseQueues <=> o.to \in CoarseQueues}
Operation(op, from, to) == [op |-> op, from |-> from, to |-> to]
Enqueue(q) == Operation("enqueue", q, q)
End(q) == Operation("end", q, q)
Close(q) == Operation("close", q, q)

Drain(t, q) == IF send[t][q] = <<>> THEN <<>> ELSE <<Operation("drain", q, q)>>
ForcePush(t, q) == IF send[t][q] = <<>> THEN <<>> ELSE <<Enqueue(q)>>
EndAll(qs) == [i \in DOMAIN qs |-> End(qs[i])]

\* Nothing of the operation is left but the call of terminate.
Finished(t) == LET o == Head(todo[t]) IN
    o.op = "end" \/ (o.op = "close" /\ send[t][o.from] = <<>>)

\* Mutated form: one free place is waited for, and a whole step is moved.
MoveStep(t) ==
    LET o == Head(todo[t])
        n == Least(Step[t], Len(send[t][o.from]))
    IN /\ todo[t] # <<>> /\ ~Finished(t)
       /\ Len(queue[o.to]) < capacity
       /\ queue' = [queue EXCEPT ![o.to] = @ \o First(n, send[t][o.from])]
       /\ send' = [send EXCEPT ![t][o.from] = Rest(n, @)]
       /\ todo' = [todo EXCEPT ![t] = IF o.op = "close" THEN @ ELSE Tail(@)]
       /\ UNCHANGED <<encoder, capacity, open, recv, inHand, turn, row, pc, state, writer, misses>>

\* NaiveQueue::enqueue and its like: wait for a free place, move what fits.
Move(t) ==
    LET o == Head(todo[t])
        n == Least(Step[t], Least(Len(send[t][o.from]), capacity - Len(queue[o.to])))
    IN /\ todo[t] # <<>> /\ ~Finished(t)
       /\ Len(queue[o.to]) < capacity
       /\ queue' = [queue EXCEPT ![o.to] = @ \o First(n, send[t][o.from])]
       /\ send' = [send EXCEPT ![t][o.from] = Rest(n, @)]
       /\ todo' = [todo EXCEPT ![t] = IF o.op = "close" \/ (o.op = "drain" /\ n < Len(send[t][o.from]))
                                      THEN @ ELSE Tail(@)]
       /\ UNCHANGED <<encoder, capacity, open, recv, inHand, turn, row, pc, state, writer, misses>>

\* terminate; the last one ends the thread, and FragmentSmart at the barrier.
Terminate(t) ==
    /\ todo[t] # <<>> /\ Finished(t)
    /\ open' = [open EXCEPT ![Head(todo[t]).to] = @ - 1]
    /\ todo' = [todo EXCEPT ![t] = Tail(@)]
    /\ pc' = [pc EXCEPT ![t] = IF Tail(todo[t]) # <<>> THEN @
                               ELSE IF Smart /\ t = Fragmenter THEN "barrier" ELSE "done"]
    /\ UNCHANGED <<encoder, capacity, queue, send, recv, inHand, turn, row, state, writer, misses>>

Barrier == /\ \A t \in Threads : pc[t] = "barrier"
           /\ pc' = [t \in Threads |-> IF t = Fragmenter THEN "done" ELSE "run"]
           /\ UNCHANGED <<encoder, capacity, queue, open, send, recv, inHand, turn, row, todo,
                          state, writer, misses>>

\* NaiveQueue::dequeue and its like, with something to take
Dequeue(t, q) ==
    LET n == Least(Step[t], Len(queue[q])) IN
    /\ queue[q] # <<>>
    /\ recv' = [recv EXCEPT ![t][q] = First(n, queue[q])]
    /\ queue' = [queue EXCEPT ![q] = Rest(n, @)]

Ended(q) == queue[q] = <<>> /\ open[q] = 0

\* A stage that has worked on what it received asks for more.
Receive(t) == LET q == Inputs[t][1] IN
    /\ inHand[t] = <<>> /\ recv[t][q] = <<>>
    /\ Dequeue(t, q)
    /\ UNCHANGED <<open, send, inHand, turn, row, pc, todo, state>>

Leave(t, operations) == LET q == Inputs[t][1] IN
    /\ inHand[t] = <<>> /\ recv[t][q] = <<>>
    /\ Ended(q)
    /\ pc' = [pc EXCEPT ![t] = "leave"]
    /\ todo' = [todo EXCEPT ![t] = operations]
    /\ UNCHANGED <<queue, open, send, recv, inHand, turn, row, state>>

\* A chunk goes to the local buffer, and this to the queue when it is full.
Put(t, q, chunk, before) ==
    /\ send' = [send EXCEPT ![t][q] = Append(@, chunk)]
    /\ todo' = [todo EXCEPT ![t] = before \o IF Len(send[t][q]) + 1 >= Step[t]
                                             THEN <<Enqueue(q)>> ELSE <<>>]
--------------------------------------------------------------------------------
(* Fragment *)

Round(t) == (turn[t] % Len(Outputs[t])) + 1

Cut == LET t == Fragmenter IN
    /\ inHand[t] # <<>>
    /\ inHand' = [inHand EXCEPT ![t] = Tail(@)]

Sent == Len(FragmentNumbers) - Len(inHand[Fragmenter])

\* One buffer for all queues: the next queue in turn gets what it holds when it is full, but
\* not at the last chunk, and at the end.
FragmentDefault ==
    LET t == Fragmenter
        from == Outputs[t][1]
        Flush == /\ todo' = [todo EXCEPT ![t] = <<Operation("enqueue", from, Outputs[t][turn[t]])>>]
                 /\ turn' = [turn EXCEPT ![t] = Round(t)]
    IN /\ encoder = "default" /\ Idle(t)
       /\ \/ /\ Cut
             /\ send' = [send EXCEPT ![t][from] = Append(@, Head(inHand[t]))]
             /\ IF Len(send[t][from]) + 1 = Step[t] /\ Len(inHand[t]) > 1
                THEN Flush ELSE UNCHANGED <<todo, turn>>
             /\ UNCHANGED pc
          \/ /\ inHand[t] = <<>> /\ send[t][from] # <<>>
             /\ Flush
             /\ UNCHANGED <<send, inHand, pc>>
          \/ /\ inHand[t] = <<>> /\ send[t][from] = <<>>
             /\ todo' = [todo EXCEPT ![t] = EndAll(Outputs[t])]
             /\ pc' = [pc EXCEPT ![t] = "leave"]
             /\ UNCHANGED <<send, inHand, turn>>
       /\ UNCHANGED <<queue, open, recv, row, state>>

SendNext == LET t == Fragmenter IN
    /\ Cut
    /\ Put(t, Outputs[t][turn[t]], Head(inHand[t]), <<>>)
    /\ UNCHANGED pc

\* Each queue is given what its buffer still holds, then terminated.
CloseQueues ==
    LET t == Fragmenter IN
    /\ inHand[t] = <<>>
    /\ todo' = [todo EXCEPT ![t] = [i \in DOMAIN Outputs[t] |-> Close(Outputs[t][i])]]
    /\ pc' = [pc EXCEPT ![t] = "leave"]
    /\ UNCHANGED <<send, inHand, turn>>

\* The queue changes whenever a multiple of its step has been pushed.
TurnInSteps == LET t == Fragmenter IN
    turn' = [turn EXCEPT ![t] = IF (Sent + 1) % Step[t] = 0 THEN Round(t) ELSE @]

FragmentNaiveQueue ==
    /\ encoder = "naive" /\ Idle(Fragmenter)
    /\ \/ SendNext /\ TurnInSteps
       \/ CloseQueues
    /\ UNCHANGED <<queue, open, recv, row, state>>

FragmentSmart ==
    /\ Smart /\ Idle(Fragmenter)
    /\ \/ SendNext /\ TurnInSteps
       \/ CloseQueues
    /\ UNCHANGED <<queue, open, recv, row, state>>

\* Fragment of encode_fifo.cpp changes the queue at every chunk.
FragmentFifo ==
    /\ encoder = "fifo" /\ Idle(Fragmenter)
    /\ \/ SendNext /\ turn' = [turn EXCEPT ![Fragmenter] = Round(Fragmenter)]
       \/ CloseQueues
    /\ UNCHANGED <<queue, open, recv, row, state>>
--------------------------------------------------------------------------------
(* Refine *)

\* The next fine chunk of the coarse chunk in hand, or of the next one received
RefineChunk(t) ==
    LET in == Inputs[t][1]
        fine == IF inHand[t] # <<>> THEN inHand[t] ELSE RefineNumbers(Head(recv[t][in]))
    IN /\ inHand[t] # <<>> \/ recv[t][in] # <<>>
       /\ recv' = IF inHand[t] # <<>> THEN recv ELSE [recv EXCEPT ![t][in] = Tail(@)]
       /\ inHand' = [inHand EXCEPT ![t] = Tail(fine)]
       /\ Put(t, Outputs[t][1], Head(fine), <<>>)
       /\ UNCHANGED <<queue, open, turn, row, pc, state>>

\* The default stages terminate all their queues, the others the first one.
FragmentRefineDefault(t) ==
    /\ encoder = "default" /\ Idle(t)
    /\ Receive(t) \/ RefineChunk(t) \/ Leave(t, Drain(t, Outputs[t][1]) \o EndAll(Outputs[t]))

RefineNaiveQueue(t) ==
    /\ encoder = "naive" /\ Idle(t)
    /\ Receive(t) \/ RefineChunk(t) \/ Leave(t, <<Close(Outputs[t][1])>>)

RefineSmart(t) ==
    /\ Smart /\ Idle(t)
    /\ Receive(t) \/ RefineChunk(t) \/ Leave(t, <<Close(Outputs[t][1])>>)

RefineFifo(t) ==
    /\ encoder = "fifo" /\ Idle(t)
    /\ Receive(t) \/ RefineChunk(t) \/ Leave(t, <<Close(Outputs[t][1])>>)
--------------------------------------------------------------------------------
(* Deduplicate *)

\* The critical section of the hash table: the first chunk of a content enters it.
sub_Deduplicate(chunk) ==
    IF state[chunk.data] = "absent" THEN state' = [state EXCEPT ![chunk.data] = "uncompressed"]
    ELSE UNCHANGED state

\* Mutated form: the two queues are taken for each other.
OtherDestination(t, isDuplicate) == IF isDuplicate THEN Outputs[t][1] ELSE Extras[t][1]

Destination(t, isDuplicate) == IF isDuplicate THEN Extras[t][1] ELSE Outputs[t][1]

\* before: what is to be done to the queues before the chunk is put.
DeduplicateChunk(t, before) ==
    LET in == Inputs[t][1]
        chunk == Head(recv[t][in])
        dup == state[chunk.data] # "absent"
    IN /\ recv[t][in] # <<>>
       /\ recv' = [recv EXCEPT ![t][in] = Tail(@)]
       /\ sub_Deduplicate(chunk)
       /\ Put(t, Destination(t, dup), [chunk EXCEPT !.isDuplicate = dup], before)
       /\ UNCHANGED <<queue, open, inHand, turn, pc>>

\* Mutated form: only the queue to Compress is terminated.
CloseOutput(t) == <<Close(Outputs[t][1])>> \o Drain(t, Extras[t][1])

CloseBoth(t) == <<Close(Outputs[t][1]), Close(Extras[t][1])>>

DeduplicateDefault(t) ==
    /\ encoder = "default" /\ Idle(t)
    /\ \/ Receive(t)
       \/ DeduplicateChunk(t, <<>>) /\ UNCHANGED row
       \/ Leave(t, Drain(t, Outputs[t][1]) \o Drain(t, Extras[t][1])
                   \o EndAll(Outputs[t]) \o EndAll(Extras[t]))

\* row_limit chunks in a row of one kind push what waits in the buffer of the other kind.
DeduplicateNaiveQueue(t) ==
    LET dup == state[Head(recv[t][Inputs[t][1]]).data] # "absent"
        n == IF row[t].compressed = ~dup THEN row[t].n + 1 ELSE 1
        idle == row[t].compressed = ~dup /\ n = RowLimit
        ForceOther == IF idle THEN ForcePush(t, Destination(t, ~dup)) ELSE <<>>
    IN /\ encoder = "naive" /\ Idle(t)
       /\ \/ Receive(t)
          \/ /\ DeduplicateChunk(t, ForceOther)
             /\ row' = [row EXCEPT ![t] = [compressed |-> ~dup,
                                           n |-> IF idle THEN 0 ELSE n]]
          \/ Leave(t, CloseBoth(t))

DeduplicateSmart(t) ==
    /\ Smart /\ Idle(t)
    /\ Receive(t) \/ (DeduplicateChunk(t, <<>>) /\ UNCHANGED row) \/ Leave(t, CloseBoth(t))

DeduplicateFifo(t) ==
    /\ encoder = "fifo" /\ Idle(t)
    /\ Receive(t) \/ (DeduplicateChunk(t, <<>>) /\ UNCHANGED row) \/ Leave(t, CloseBoth(t))
--------------------------------------------------------------------------------
(* Compress *)

sub_Compress(chunk) == state' = [state EXCEPT ![chunk.data] = "compressed"]

CompressChunk(t) ==
    LET in == Inputs[t][1]
        chunk == Head(recv[t][in])
    IN /\ recv[t][in] # <<>>
       /\ recv' = [recv EXCEPT ![t][in] = Tail(@)]
       /\ sub_Compress(chunk)
       /\ Put(t, Outputs[t][1], chunk, <<>>)
       /\ UNCHANGED <<queue, open, inHand, turn, row, pc>>

\* The pop times out: what waits in the output buffer is pushed, and the pop is tried again.
CrossPop(t) ==
    /\ recv[t][Inputs[t][1]] = <<>>
    /\ send[t][Outputs[t][1]] # <<>>
    /\ todo' = [todo EXCEPT ![t] = ForcePush(t, Outputs[t][1])]
    /\ UNCHANGED <<queue, open, send, recv, inHand, turn, row, pc, state>>

CompressDefault(t) ==
    /\ encoder = "default" /\ Idle(t)
    /\ Receive(t) \/ CompressChunk(t) \/ Leave(t, Drain(t, Outputs[t][1]) \o EndAll(Outputs[t]))

\* cross_pop_no_timing: the mutex is not free within 500 ns.
CompressNaiveQueue(t) ==
    /\ encoder = "naive" /\ Idle(t)
    /\ \/ Receive(t) \/ CompressChunk(t) \/ CrossPop(t)
       \/ Leave(t, <<Close(Outputs[t][1])>>)

\* pop with a timeout of 50 ns for the mutex and the semaphore
CompressSmart(t) ==
    /\ Smart /\ Idle(t)
    /\ \/ Receive(t) \/ CompressChunk(t) \/ CrossPop(t)
       \/ Leave(t, <<Close(Outputs[t][1])>>)

CompressFifo(t) ==
    /\ encoder = "fifo" /\ Idle(t)
    /\ Receive(t) \/ CompressChunk(t) \/ Leave(t, <<Close(Outputs[t][1])>>)

Fragment == FragmentDefault \/ FragmentNaiveQueue \/ FragmentSmart \/ FragmentFifo
Refine(t) == FragmentRefineDefault(t) \/ RefineNaiveQueue(t) \/ RefineSmart(t) \/ RefineFifo(t)
Deduplicate(t) == \/ DeduplicateDefault(t) \/ DeduplicateNaiveQueue(t)
                  \/ DeduplicateSmart(t) \/ DeduplicateFifo(t)
Compress(t) == CompressDefault(t) \/ CompressNaiveQueue(t) \/ CompressSmart(t) \/ CompressFifo(t)
--------------------------------------------------------------------------------
(* Reorder *)

EmptyHanded == \A q \in Queues : recv[Reorderer][q] = <<>>

\* dequeue of the queue in turn; an ended queue gives nothing, and the next one is asked.
Ask == LET q == Inputs[Reorderer][turn[Reorderer]] IN
    /\ turn' = [turn EXCEPT ![Reorderer] = (@ % Len(Inputs[Reorderer])) + 1]
    /\ \/ Dequeue(Reorderer, q) /\ misses' = 0 /\ UNCHANGED pc
       \/ /\ Ended(q)
          /\ misses' = misses + 1
          /\ pc' = [pc EXCEPT ![Reorderer] = IF misses' = Len(Inputs[Reorderer]) THEN "flush" ELSE @]
          /\ UNCHANGED <<queue, recv>>
    /\ UNCHANGED <<open, send, inHand, row, todo, state, tree, perAnchor, maxAnchors, next, hold, archive>>

\* Mutated form: only the number of the fine chunk is compared.
InSequenceOfAny(chunk) == chunk.l2 = next.l2

InSequence(chunk) == chunk.l1 = next.l1 /\ chunk.l2 = next.l2

\* Mutated form: the array is doubled when the number after its last one is exceeded.
CountAnchorLate(chunk) ==
    /\ maxAnchors' = IF chunk.l1 > maxAnchors THEN 2 * maxAnchors ELSE maxAnchors
    /\ perAnchor' = IF chunk.last
                    THEN [l1 \in DOMAIN perAnchor \cup {chunk.l1} |->
                             IF l1 = chunk.l1 THEN chunk.l2 + 1 ELSE perAnchor[l1]]
                    ELSE perAnchor

\* The array is doubled once; the number of fine chunks is known from the last one.
CountAnchor(chunk) ==
    /\ maxAnchors' = IF chunk.l1 >= maxAnchors THEN 2 * maxAnchors ELSE maxAnchors
    /\ perAnchor' = IF chunk.last
                    THEN [l1 \in DOMAIN perAnchor \cup {chunk.l1} |->
                             IF l1 = chunk.l1 THEN chunk.l2 + 1 ELSE perAnchor[l1]]
                    ELSE perAnchor

\* A chunk that is the next in the sequence is to be written, another one is cached.
Arrange(chunk) ==
    /\ CountAnchor(chunk)
    /\ IF InSequence(chunk) THEN hold' = <<chunk>> /\ UNCHANGED tree
       ELSE tree' = TreeInsert(tree, chunk) /\ UNCHANGED hold

\* Without write-ahead all chunks are cached.
Collect(chunk) == CountAnchor(chunk) /\ tree' = TreeInsert(tree, chunk) /\ UNCHANGED hold

Accept(q) ==
    /\ recv[Reorderer][q] # <<>>
    /\ recv' = [recv EXCEPT ![Reorderer][q] = Tail(@)]
    /\ IF encoder = "smart" THEN Collect(Head(recv[Reorderer][q])) ELSE Arrange(Head(recv[Reorderer][q]))
    /\ misses' = 0
    /\ UNCHANGED <<queue, open, send, inHand, row, pc, todo, state, next, archive>>

Reading == pc[Reorderer] = "run" /\ hold = <<>>

\* One buffer for all queues
ReorderDefault ==
    /\ encoder = "default" /\ Reading
    /\ \/ EmptyHanded /\ Ask
       \/ UNCHANGED turn /\ \E q \in Queues : Accept(q)

\* A buffer for each queue, and the queue changes at every pop
PopInTurn == LET q == Inputs[Reorderer][turn[Reorderer]] IN
    \/ recv[Reorderer][q] = <<>> /\ Ended(q) /\ Ask
    \/ /\ recv[Reorderer][q] = <<>>
       /\ Dequeue(Reorderer, q)
       /\ UNCHANGED <<open, send, inHand, turn, row, pc, todo, state, writer, misses>>
    \/ /\ Accept(q)
       /\ turn' = [turn EXCEPT ![Reorderer] = (@ % Len(Inputs[Reorderer])) + 1]

ReorderNaiveQueue == encoder = "naive" /\ Reading /\ PopInTurn

ReorderSmartAhead == encoder = "smart ahead" /\ Reading /\ PopInTurn

ReorderSmart == encoder = "smart" /\ Reading /\ PopInTurn

ReorderFifo == encoder = "fifo" /\ Reading /\ PopInTurn

sequence_inc == IF next.l1 \in DOMAIN perAnchor /\ perAnchor[next.l1] = next.l2 + 1
                THEN [l1 |-> next.l1 + 1, l2 |-> 0]
                ELSE [next EXCEPT !.l2 = @ + 1]

\* The cached chunk that follows in the sequence, if it is there
Cached(position) ==
    IF /\ position.l1 \in DOMAIN tree /\ TreeFindMin(tree) = position.l1
       /\ FindMin(tree[position.l1]).l2 = position.l2
    THEN <<FindMin(tree[position.l1])>> ELSE <<>>

\* Mutated form: the chunk Deduplicate met first brings the data, whichever is written first.
WriteAsFound ==
    LET data == hold[1].data IN
    /\ state[data] # "uncompressed"
    /\ archive' = Append(archive, [fingerprint |-> hold[1].isDuplicate, data |-> data])
    /\ state' = [state EXCEPT ![data] = "flushed"]

\* Mutated form: it is forgotten that the data have been written.
WriteAgain ==
    LET data == hold[1].data IN
    /\ state[data] # "uncompressed"
    /\ archive' = Append(archive, [fingerprint |-> state[data] = "flushed", data |-> data])
    /\ UNCHANGED state

\* write_chunk_to_file waits until the chunk, or the one it duplicates, is compressed; the first
\* of a content that is written brings the data.
write_chunk_to_file ==
    LET data == hold[1].data IN
    /\ state[data] # "uncompressed"
    /\ archive' = Append(archive, [fingerprint |-> state[data] = "flushed", data |-> data])
    /\ state' = [state EXCEPT ![data] = "flushed"]

\* Write the chunk in hand, and go on with the next one if the cache has it.
WriteAndAdvance ==
    /\ hold # <<>>
    /\ write_chunk_to_file
    /\ next' = sequence_inc
    /\ hold' = Cached(sequence_inc)
    /\ tree' = IF hold' = <<>> THEN tree ELSE TreeDelete(tree, next'.l1)
    /\ UNCHANGED <<encoder, capacity, stages, perAnchor, maxAnchors, misses>>

\* Without write-ahead the main thread writes, when it has joined all the others.
Flushing == IF encoder = "smart" THEN \A t \in Threads : pc[t] \in {"done", "flush"}
            ELSE pc[Reorderer] = "flush"

\* At the end what is cached follows in the sequence, or the encoder gives up.
FlushCache ==
    /\ Flushing /\ pc[Reorderer] = "flush" /\ hold = <<>>
    /\ hold' = Cached(next)
    /\ tree' = IF hold' = <<>> THEN tree ELSE TreeDelete(tree, next.l1)
    /\ pc' = [pc EXCEPT ![Reorderer] = IF hold' # <<>> THEN @
                                       ELSE IF tree = TreeMakeEmpty THEN "done" ELSE "mismatch"]
    /\ UNCHANGED <<encoder, capacity, queue, open, send, recv, inHand, turn, row, todo, state,
                   perAnchor, maxAnchors, next, archive, misses>>

Reorder == ReorderDefault \/ ReorderNaiveQueue \/ ReorderSmartAhead \/ ReorderSmart \/ ReorderFifo
--------------------------------------------------------------------------------
AllDone == \A t \in Threads : pc[t] = "done"

Stage(t) == \/ t = Fragmenter /\ Fragment
            \/ t \in Refiners /\ Refine(t)
            \/ t \in Dedupers /\ Deduplicate(t)
            \/ t \in Compressors /\ Compress(t)

Thread(t) == \/ Stage(t) /\ UNCHANGED <<encoder, capacity, writer, misses>>
             \/ Move(t) \/ Terminate(t)

Read == Reorder /\ UNCHANGED <<encoder, capacity>>

Next == \/ \E t \in Threads \ {Reorderer} : Thread(t)
        \/ Read \/ WriteAndAdvance \/ FlushCache \/ Barrier

Spec == Init /\ [][Next]_vars

\* Every thread goes on when it can; main waits at the barrier, and joins the others.
Fairness == /\ \A t \in Threads \ {Reorderer} : WF_vars(Thread(t))
            /\ WF_vars(Read)
            /\ WF_vars(WriteAndAdvance) /\ WF_vars(FlushCache) /\ WF_vars(Barrier)

FairSpec == Spec /\ Fairness
--------------------------------------------------------------------------------
(* Decode of src/dedup/decoder.cpp: a fingerprint stands for the data that came with it before. *)

Known(i) == archive[i].fingerprint =>
                \E j \in 1..i - 1 : ~archive[j].fingerprint /\ archive[j].data = archive[i].data

Decode == LET readable == {n \in 0..Len(archive) : \A i \in 1..n : Known(i)}
          IN [i \in 1..Max(readable) |-> archive[i].data]
--------------------------------------------------------------------------------
TypeOK ==
    /\ encoder \in Encoders /\ capacity \in Nat \ {0}
    /\ queue \in [Queues -> Seq(Coarse) \cup Seq(Fine)]
    /\ \A q \in Queues : Len(queue[q]) <= capacity /\ queue[q] \in Packets(q)
    /\ send \in [Threads -> [Queues -> Seq(Coarse) \cup Seq(Fine)]]
    /\ recv \in [Threads -> [Queues -> Seq(Coarse) \cup Seq(Fine)]]
    /\ \A t \in Threads, q \in Queues : send[t][q] \in Packets(q) /\ recv[t][q] \in Packets(q)
    /\ inHand \in [Threads -> Seq(Coarse) \cup Seq(Fine)]
    /\ \A t \in Threads : inHand[t] \in IF t = Fragmenter THEN Seq(Coarse) ELSE Seq(Fine)
    /\ turn \in [{Fragmenter, Reorderer} -> Nat]
    /\ turn[Fragmenter] \in DOMAIN Outputs[Fragmenter]
    /\ turn[Reorderer] \in DOMAIN Inputs[Reorderer]
    /\ pc \in [Threads -> {"barrier", "run", "leave", "flush", "mismatch", "done"}]
    /\ todo \in [Threads -> Seq(Operations)]
    /\ state \in [Contents -> {"absent", "uncompressed", "compressed", "flushed"}]
    /\ \A l1 \in DOMAIN tree : l1 \in Nat /\ tree[l1] \in Seq(Fine) \ {<<>>}
    /\ next \in [l1 : Nat, l2 : Nat]
    /\ hold \in Seq(Fine) /\ Len(hold) <= 1
    /\ archive \in Seq([fingerprint : BOOLEAN, data : Contents])

BuffersSuffice ==
    \A t \in Threads, q \in Queues : Len(send[t][q]) <= Step[t] /\ Len(recv[t][q]) <= Step[t]

\* What Reorder has written to chunks_per_anchor is inside the array, ...
AnchorsInside == \A l1 \in DOMAIN perAnchor : l1 < maxAnchors

\* ... and what it writes next too, or it is far ahead of what it has written to the archive.
InsideOrFarAhead ==
    AnchorsInside => \A l1 \in DOMAIN perAnchor' :
                         l1 < maxAnchors' \/ (l1 >= 2 * InitAnchors /\ l1 >= 2 * next.l1)

\* No array of the stages is too small for what is written to it, whatever the order in which the
\* chunks arrive: the local buffers of Step elements, although a full queue may take only a part of
\* them, and chunks_per_anchor, although it is doubled only once for a chunk.  The exception is a
\* coarse chunk whose number is twice the first length of the array or more, and that comes while
\* Reorder still waits for one of at most half its number: that one the code writes outside.
ArraysSuffice == []BuffersSuffice /\ [][InsideOrFarAhead]_vars

\* A fingerprint is only written for data the archive has already: what Decode relies on when it
\* looks a fingerprint up, although chunks are compressed and duplicates found in any order.
FingerprintsFollowData == \A i \in 1..Len(archive) : Known(i)

\* Whatever the interleaving of the Deduplicate threads, an archive has as many data and
\* fingerprint records as EncodeForNumbers counts in the order of the file.
NumbersAgree ==
    AllDone =>
        LET Count(fp) == Cardinality({i \in DOMAIN archive : archive[i].fingerprint = fp})
        IN /\ Count(FALSE) = DeduplicateNumbers.compress
           /\ Count(TRUE) = DeduplicateNumbers.deduplicate

\* While Reorder waits for a chunk to be compressed, that chunk is on its way to Compress.
WaitedChunkIsOnItsWay ==
    hold # <<>> /\ state[hold[1].data] = "uncompressed" =>
        LET ways == (UNION {{send[t][Outputs[t][1]]} : t \in Dedupers})
                    \cup UNION {{queue[Inputs[t][1]], recv[t][Inputs[t][1]]} : t \in Compressors}
        IN \E s \in ways : \E i \in DOMAIN s : s[i].data = hold[1].data /\ ~s[i].isDuplicate

Files == INSTANCE Archive WITH decoded <- Decode
\* At any time the archive, decoded, is a prefix of the file.
ImplementsArchive == Files!Spec

\* Reorder cannot go on, and a queue it does not look at is full.
ReorderStarved ==
    /\ \/ hold # <<>> /\ state[hold[1].data] = "uncompressed"
       \/ LET q == Inputs[Reorderer][turn[Reorderer]] IN Reading /\ queue[q] = <<>> /\ open[q] > 0
    /\ \E i \in DOMAIN Inputs[Reorderer] : Len(queue[Inputs[Reorderer][i]]) = capacity

\* With room for the chunks of the file every thread returns and the archive decodes to the file;
\* with less, nothing but a Reorder that waits for one queue while another is full can stop them.
EveryStageReturns ==
    \/ <>[](AllDone /\ Decode = File)
    \/ capacity < Len(File) /\ <>[]ReorderStarved
================================================================================
