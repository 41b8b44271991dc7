-------------------------------- MODULE SmartFifo --------------------------------
(***************************************************************************)
(* src/smart_fifo.h: a FIFO of chunks.  A producer fills a chunk of its    *)
(* own (SmartFIFO) and links it at the tail of a chain (SmartFIFOImpl);    *)
(* a consumer takes ranges of the chunks at the head and reads them        *)
(* without a lock.  Producers exclude each other by one mutex, consumers   *)
(* by another, and the two sides only meet in atomics: the link of a       *)
(* chunk, _tail, the count of producers done and a semaphore.              *)
(*                                                                         *)
(* The chain is a sequence, and _head and _tail are positions in it.  A    *)
(* chunk only grows before it is linked, so of its elements the model      *)
(* keeps those still available.  The semaphore spins: a waiter takes what  *)
(* it wants and gives it back when there was nothing, without effect for   *)
(* the producers, so its wait is an action that is enabled when it ends.   *)
(***************************************************************************)
EXTENDS Integers, Sequences, FiniteSets

CONSTANTS Producers, Consumers,
          N,             \* bound: items a producer pushes at most
          InitStep,      \* InitStep[t]: first step of thread t
          NewStep,       \* its step after the change
          ChangeAfter,   \* items after which the step changes, 0: never
          Timed,         \* consumers that pop with a timeout
          Nobody         \* holds a mutex that is free

Threads == Producers \cup Consumers

ASSUME FifoThreads == /\ Producers \cap Consumers = {}
                      /\ IsFiniteSet(Threads)
                      /\ Timed \subseteq Consumers
                      /\ Nobody \notin Threads
ASSUME FifoSizes == /\ N \in Nat
                    /\ InitStep \in [Threads -> Nat \ {0}]
                    /\ NewStep \in [Threads -> Nat \ {0}]
                    /\ ChangeAfter \in Nat

VARIABLES
    chain,       \* the chunks, linked: what is available, has_next, _references
    head, tail,  \* _head and _tail
    value,       \* SmartFIFOSemaphore::_value
    finished,    \* SmartFIFOSemaphore::_finished
    done,        \* producers done, the high half of _nb_producers__done
    prodMutex, consMutex,  \* who holds them
    chunk,       \* _chunk of each producer; its _size is the step
    amount,      \* what the producer will post
    step,        \* _step of each thread
    moved,       \* _inserted or _removed
    changed,     \* _changed
    ranges,      \* positions of the chunks in a consumer's _elements
    pairs,       \* the same, in the pop under way
    items,       \* the elements of both that were not read yet
    want,        \* nb_elements of the pop under way
    hasNext,     \* has_next, as the consumer last saw it
    patient,     \* the pop under way has no timeout
    pc,
    pushed,      \* history: items each producer has pushed
    taken        \* history: items each consumer has read

fifo     == <<chain, head, tail, value, finished, done>>
mutexes  == <<prodMutex, consMutex>>
producer == <<chunk, amount, pushed>>
popping  == <<pairs, want, hasNext, patient>>
elements == <<ranges, items, taken>>
proxy    == <<step, moved, changed>>
vars == <<fifo, mutexes, producer, popping, elements, proxy, pc>>

Chunk(s, next) == [available |-> s, next |-> next, references |-> 1]

Init == /\ chain = <<Chunk(<<>>, FALSE)>>
        /\ head = 1 /\ tail = 1
        /\ value = 0 /\ finished = FALSE
        /\ done = 0
        /\ prodMutex = Nobody /\ consMutex = Nobody
        /\ chunk = [p \in Producers |-> <<>>]
        /\ amount = [p \in Producers |-> 0]
        /\ step = InitStep
        /\ moved = [t \in Threads |-> 0]
        /\ changed = [t \in Threads |-> FALSE]
        /\ ranges = [c \in Consumers |-> <<>>]
        /\ pairs = [c \in Consumers |-> <<>>]
        /\ items = [c \in Consumers |-> <<>>]
        /\ want = [c \in Consumers |-> 0]
        /\ hasNext = [c \in Consumers |-> FALSE]
        /\ patient = [c \in Consumers |-> FALSE]
        /\ pc = [t \in Threads |-> "ready"]
        /\ pushed = [p \in Producers |-> 0]
        /\ taken = [c \in Consumers |-> <<>>]

Goto(t, label) == pc' = [pc EXCEPT ![t] = label]

Terminated == done = Cardinality(Producers)

Least(m, n) == IF m < n THEN m ELSE n

\* _reconfigure_step_push and _reconfigure_step_pop: the step changes once.
CountMoved(t, n) ==
    LET counting == ChangeAfter # 0 /\ ~changed[t]
        change == counting /\ moved[t] + n >= ChangeAfter
    IN
    /\ moved' = [moved EXCEPT ![t] = IF counting THEN @ + n ELSE @]
    /\ changed' = [changed EXCEPT ![t] = @ \/ change]
    /\ step' = [step EXCEPT ![t] = IF change THEN NewStep[t] ELSE @]
----------------------------------------------------------------------------------
(* Producers *)

\* push: the item that finds the chunk full goes to a chunk linked to it.
Push(p) ==
    LET full == Len(chunk[p]) = step[p] IN
    /\ pc[p] = "ready"
    /\ pushed[p] < N
    /\ pushed' = [pushed EXCEPT ![p] = @ + 1]
    /\ chunk' = [chunk EXCEPT ![p] = Append(@, <<p, pushed[p] + 1>>)]
    /\ amount' = [amount EXCEPT ![p] = IF full THEN step[p] + 1 ELSE 0]
    /\ Goto(p, IF full THEN "link" ELSE "ready")
    /\ UNCHANGED <<fifo, mutexes, popping, elements, proxy>>

\* safe_push_immediate: the whole step is posted, however little there is.
PushImmediate(p) ==
    /\ pc[p] = "ready"
    /\ chunk[p] # <<>>
    /\ amount' = [amount EXCEPT ![p] = step[p]]
    /\ Goto(p, "link")
    /\ UNCHANGED <<fifo, mutexes, chunk, pushed, popping, elements, proxy>>

\* SmartFIFO::terminate_producer: the last chunk may be empty.
Terminate(p) ==
    /\ pc[p] = "ready"
    /\ amount' = [amount EXCEPT ![p] = Len(chunk[p])]
    /\ Goto(p, "linklast")
    /\ UNCHANGED <<fifo, mutexes, chunk, pushed, popping, elements, proxy>>

\* The chunk as it is copied into the chain: two chunks if it overflowed
Pieces(p) ==
    IF Len(chunk[p]) > step[p]
    THEN <<Chunk(SubSeq(chunk[p], 1, step[p]), TRUE),
           Chunk(SubSeq(chunk[p], step[p] + 1, Len(chunk[p])), FALSE)>>
    ELSE <<Chunk(chunk[p], FALSE)>>

AfterLink == [link |-> "tail", linklast |-> "taillast"]
AfterTail == [tail |-> "post", taillast |-> "postlast"]
AfterPost == [post |-> "ready", postlast |-> "finish"]

\* Mutated form: no mutex
AlwaysFree == TRUE

Free == prodMutex = Nobody

\* push_chunk: the mutex, then the link from the tail
Link(p) ==
    /\ pc[p] \in {"link", "linklast"}
    /\ Free
    /\ prodMutex' = p
    /\ chain' = [chain EXCEPT ![tail].next = TRUE] \o Pieces(p)
    /\ chunk' = [chunk EXCEPT ![p] = <<>>]
    /\ Goto(p, AfterLink[pc[p]])
    /\ UNCHANGED <<head, tail, value, finished, done, consMutex, amount, pushed,
                   popping, elements, proxy>>

\* Mutated form: the walk goes on until there is no chunk.
PastTheLast == Len(chain) + 1

LastChunk == Len(chain)

\* ... the walk to the last chunk and the store of _tail
MoveTail(p) ==
    /\ pc[p] \in {"tail", "taillast"}
    /\ tail' = LastChunk
    /\ Goto(p, AfterTail[pc[p]])
    /\ UNCHANGED <<chain, head, value, finished, done, mutexes, producer, popping, elements, proxy>>

\* ... the post, and what the callers of push_chunk do after it
Post(p) ==
    /\ pc[p] \in {"post", "postlast"}
    /\ value' = value + amount[p]
    /\ prodMutex' = Nobody
    /\ IF pc[p] = "post" THEN CountMoved(p, amount[p]) ELSE UNCHANGED proxy
    /\ Goto(p, AfterPost[pc[p]])
    /\ UNCHANGED <<chain, head, tail, finished, done, consMutex, chunk, amount, pushed,
                   popping, elements>>

\* SmartFIFOImpl::terminate_producer, the fetch_add
Finish(p) ==
    /\ pc[p] = "finish"
    /\ done' = done + 1
    /\ Goto(p, "last")
    /\ UNCHANGED <<chain, head, tail, value, finished, mutexes, producer, popping, elements, proxy>>

\* Mutated form: the last producer does not release the semaphore.
LastSilently(p) ==
    /\ pc[p] = "last"
    /\ Goto(p, "done")
    /\ UNCHANGED <<chain, head, tail, value, finished, done, mutexes, producer, popping, elements,
                   proxy>>

\* ... and the load
Last(p) ==
    /\ pc[p] = "last"
    /\ finished' = (finished \/ Terminated)
    /\ Goto(p, "done")
    /\ UNCHANGED <<chain, head, tail, value, done, mutexes, producer, popping, elements, proxy>>
----------------------------------------------------------------------------------
(* Consumers *)

\* SmartFIFOElements::next, until nothing is left of the ranges
Read(c) ==
    /\ pc[c] = "ready"
    /\ items[c] # <<>>
    /\ taken' = [taken EXCEPT ![c] = Append(@, Head(items[c]))]
    /\ items' = [items EXCEPT ![c] = Tail(@)]
    /\ UNCHANGED <<fifo, mutexes, producer, popping, ranges, proxy, pc>>

Holds(s, k) == Cardinality({i \in DOMAIN s : s[i] = k})

\* Mutated form: the chunks of the last pop are not given back.
NotDestroyed(s) == chain

\* destroy, once for every range of s
Destroyed(s) ==
    [k \in DOMAIN chain |-> [chain[k] EXCEPT !.references = @ - Holds(s, k)]]

\* prepare_elements: clear, then pop; after a timeout again, without a timeout
Prepare(c) ==
    /\ pc[c] \in {"ready", "retry"}
    /\ items[c] = <<>>
    /\ chain' = Destroyed(ranges[c])
    /\ patient' = [patient EXCEPT ![c] = c \notin Timed \/ pc[c] = "retry"]
    /\ Goto(c, "lock")
    /\ UNCHANGED <<head, tail, value, finished, done, mutexes, producer, pairs, want, hasNext,
                   elements, proxy>>

Lock(c) ==
    /\ pc[c] = "lock"
    /\ consMutex = Nobody
    /\ consMutex' = c
    /\ want' = [want EXCEPT ![c] = step[c]]
    /\ pairs' = [pairs EXCEPT ![c] = <<>>]
    /\ Goto(c, "empty")
    /\ UNCHANGED <<fifo, prodMutex, producer, hasNext, patient, elements, proxy>>

\* try_lock_for that fails, or the semaphore's wait that returns -1
Timeout(c) ==
    /\ ~patient[c]
    /\ \/ pc[c] = "lock" /\ consMutex # Nobody /\ UNCHANGED consMutex
       \/ pc[c] = "wait" /\ value <= 0 /\ ~finished /\ consMutex' = Nobody
    /\ Goto(c, "retry")
    /\ UNCHANGED <<fifo, prodMutex, producer, popping, elements, proxy>>

\* The condition of pop's first loop: _head->empty, ...
TestEmpty(c) ==
    /\ pc[c] = "empty"
    /\ hasNext' = [hasNext EXCEPT ![c] = chain[head].next]
    /\ Goto(c, IF chain[head].available = <<>> THEN "terminated" ELSE "drain")
    /\ UNCHANGED <<fifo, mutexes, producer, pairs, want, patient, elements, proxy>>

MoveHead == /\ chain' = [chain EXCEPT ![head].references = @ - 1]
            /\ head' = head + 1

\* ... then terminated(), and the body of the loop
TestTerminated(c) ==
    /\ pc[c] = "terminated"
    /\ \/ /\ Terminated
          /\ Goto(c, "drain")
          /\ UNCHANGED <<chain, head>>
       \/ /\ ~Terminated /\ hasNext[c]
          /\ MoveHead
          /\ Goto(c, "empty")
       \/ /\ ~Terminated /\ ~hasNext[c]
          /\ Goto(c, "wait")
          /\ UNCHANGED <<chain, head>>
    /\ UNCHANGED <<tail, value, finished, done, mutexes, producer, popping, elements, proxy>>

\* Mutated form: what was taken in excess is not given back.
ConsumedWithExcess(c) == want[c]

Consumed(c) == IF finished THEN want[c] ELSE Least(want[c], value)

\* SmartFIFOSemaphore::wait, when it succeeds
Wait(c) ==
    /\ pc[c] = "wait"
    /\ value > 0 \/ finished
    /\ value' = value - Consumed(c)
    /\ Goto(c, "empty")
    /\ UNCHANGED <<chain, head, tail, finished, done, mutexes, producer, popping, elements, proxy>>

\* Mutated form: without the second loop
TestDrainNever(c) ==
    /\ pc[c] = "drain"
    /\ Goto(c, "take")
    /\ UNCHANGED <<fifo, mutexes, producer, popping, elements, proxy>>

\* The condition of pop's second loop: terminated() first, ...
TestDrain(c) ==
    /\ pc[c] = "drain"
    /\ Goto(c, IF Terminated THEN "left" ELSE "take")
    /\ UNCHANGED <<fifo, mutexes, producer, popping, elements, proxy>>

\* Mutated form: the chunks after the head are forgotten.
ExhaustedHead == chain[head].available = <<>>

Exhausted == chain[head].available = <<>> /\ ~chain[head].next

\* ... then _head->empty; the end of the stream
Drain(c) ==
    /\ pc[c] = "left"
    /\ \/ /\ chain[head].available # <<>>
          /\ Goto(c, "take")
          /\ UNCHANGED <<chain, head, consMutex, ranges>>
       \/ /\ chain[head].available = <<>> /\ chain[head].next
          /\ MoveHead
          /\ Goto(c, "drain")
          /\ UNCHANGED <<consMutex, ranges>>
       \/ /\ Exhausted
          /\ ranges' = [ranges EXCEPT ![c] = <<>>]
          /\ consMutex' = Nobody
          /\ Goto(c, "done")
          /\ UNCHANGED <<chain, head>>
    /\ UNCHANGED <<tail, value, finished, done, prodMutex, producer, popping, items, taken, proxy>>

\* FIFOChunk::pop on the head
Take(c) ==
    LET there == chain[head].available
        n == Least(want[c], Len(there))
        over == IF there = <<>> THEN ~chain[head].next
                                ELSE n = want[c] \/ ~chain[head].next
    IN
    /\ pc[c] = "take"
    /\ chain' = [chain EXCEPT ![head].available = SubSeq(@, n + 1, Len(@)),
                              ![head].references = @ + 1]
    /\ items' = [items EXCEPT ![c] = @ \o SubSeq(there, 1, n)]
    /\ pairs' = [pairs EXCEPT ![c] = Append(@, head)]
    /\ want' = [want EXCEPT ![c] = @ - n]
    /\ Goto(c, IF over THEN "return" ELSE "advance")
    /\ UNCHANGED <<head, tail, value, finished, done, mutexes, producer, hasNext, patient, ranges, taken,
                   proxy>>

\* The end of pop's last loop: _head stops at _tail.
Advance(c) ==
    /\ pc[c] = "advance"
    /\ \/ /\ head = tail
          /\ Goto(c, "return")
          /\ UNCHANGED <<chain, head>>
       \/ /\ head # tail /\ chain[head].next
          /\ MoveHead
          /\ Goto(c, "take")
    /\ UNCHANGED <<tail, value, finished, done, mutexes, producer, popping, elements, proxy>>

\* elements.set(pairs), and the rest of prepare_elements
Return(c) ==
    /\ pc[c] = "return"
    /\ ranges' = [ranges EXCEPT ![c] = pairs[c]]
    /\ consMutex' = Nobody
    /\ CountMoved(c, step[c])
    /\ Goto(c, "ready")
    /\ UNCHANGED <<fifo, prodMutex, producer, popping, items, taken>>
----------------------------------------------------------------------------------
Over == /\ \A t \in Threads : pc[t] = "done"
        /\ UNCHANGED vars

Producing(p) == \/ Push(p) \/ PushImmediate(p) \/ Terminate(p)
                \/ Link(p) \/ MoveTail(p) \/ Post(p) \/ Finish(p) \/ Last(p)
Consuming(c) == \/ Read(c) \/ Prepare(c) \/ Lock(c) \/ Timeout(c)
                \/ TestEmpty(c) \/ TestTerminated(c) \/ Wait(c) \/ TestDrain(c) \/ Drain(c)
                \/ Take(c) \/ Advance(c) \/ Return(c)

Next == \/ \E p \in Producers : Producing(p)
        \/ \E c \in Consumers : Consuming(c)
        \/ Over

Spec == Init /\ [][Next]_vars

\* Threads run, and of the waiting ones each gets the mutex in the end.
FairSpec == /\ Spec
            /\ \A p \in Producers : WF_vars(Producing(p))
            /\ \A c \in Consumers : WF_vars(Consuming(c))
----------------------------------------------------------------------------------
Item == Producers \X (1..N)
ProducerLabel == {"ready", "link", "linklast", "tail", "taillast", "post", "postlast",
                  "finish", "last", "done"}
ConsumerLabel == {"ready", "retry", "lock", "empty", "terminated", "wait", "drain", "left",
                  "take", "advance", "return", "done"}

TypeOK == /\ chain \in Seq([available : Seq(Item), next : BOOLEAN, references : Int])
          /\ head \in 1..Len(chain) /\ tail \in 1..Len(chain)
          /\ value \in Int /\ finished \in BOOLEAN
          /\ done \in 0..Cardinality(Producers)
          /\ prodMutex \in Producers \cup {Nobody}
          /\ consMutex \in Consumers \cup {Nobody}
          /\ chunk \in [Producers -> Seq(Item)]
          /\ amount \in [Producers -> Nat]
          /\ step \in [Threads -> Nat \ {0}]
          /\ moved \in [Threads -> Nat]
          /\ changed \in [Threads -> BOOLEAN]
          /\ ranges \in [Consumers -> Seq(Nat)] /\ pairs \in [Consumers -> Seq(Nat)]
          /\ items \in [Consumers -> Seq(Item)]
          /\ want \in [Consumers -> Nat]
          /\ hasNext \in [Consumers -> BOOLEAN]
          /\ patient \in [Consumers -> BOOLEAN]
          /\ pc \in [Threads -> ProducerLabel \cup ConsumerLabel]
          /\ pushed \in [Producers -> 0..N]
          /\ taken \in [Consumers -> Seq(Item)]

(***************************************************************************)
(* Neither exception of the shared part is ever thrown: a producer that    *)
(* has the mutex finds no chunk after _tail ("_tail isn't the tail"), and  *)
(* a consumer that has to move on finds one after _head ("Oups ?").  And a *)
(* pop never hands out ranges that begin with an empty one, whose first    *)
(* element next() would take from a null pointer.                          *)
(***************************************************************************)
LinkedWhereExpected ==
    /\ prodMutex = Nobody => ~chain[tail].next
    /\ \A c \in Consumers : pc[c] = "advance" /\ head # tail => chain[head].next

FirstRangeHoldsSomething ==
    \A c \in Consumers :
        pc[c] = "take" /\ pairs[c] = <<>> => chain[head].available # <<>>

NeitherThrows == LinkedWhereExpected /\ FirstRangeHoldsSomething

(***************************************************************************)
(* The proof in the comment of push_chunk: a consumer is never left on the *)
(* semaphore while there is data.  Either it will be let through, or a     *)
(* producer that has linked its chunk is about to post.                    *)
(***************************************************************************)
WaiterIsReleased ==
    \A c \in Consumers :
        pc[c] = "wait" /\ (\E k \in head..Len(chain) : chain[k].available # <<>>) =>
            \/ value > 0 \/ finished
            \/ \E p \in Producers : pc[p] \in {"tail", "taillast", "post", "postlast"}

(***************************************************************************)
(* A chunk is referenced by the chain until _head has passed it, and once  *)
(* by each range of it that a consumer still reads, so that the last user  *)
(* could free it.  After a pop that timed out prepare_elements clears the  *)
(* same ranges again: only then there may be fewer references, never more. *)
(***************************************************************************)
InUse(c) == IF pc[c] = "ready" THEN ranges[c]
            ELSE IF pc[c] \in {"take", "advance", "return"} THEN pairs[c] ELSE <<>>

Users(k) ==
    (IF k >= head THEN {<<Nobody, k>>} ELSE {})
    \cup UNION {{c} \X {i \in DOMAIN InUse(c) : InUse(c)[i] = k} : c \in Consumers}

ReferencesBalanced ==
    \A k \in DOMAIN chain :
        \/ chain[k].references = Cardinality(Users(k))
        \/ Timed # {} /\ chain[k].references < Cardinality(Users(k))

(***************************************************************************)
(* The FIFO implements the channel.  What is in a producer's chunk or in   *)
(* the chain is unclaimed, what a consumer has popped and not read yet is  *)
(* claimed.                                                                *)
(***************************************************************************)
Elements(s) == {s[i] : i \in DOMAIN s}

Abstract == INSTANCE Channel WITH
    sent     <- pushed,
    pool     <- (UNION {Elements(chunk[p]) : p \in Producers})
                    \cup UNION {Elements(chain[k].available) : k \in DOMAIN chain},
    claimed  <- items,
    received <- taken,
    closed   <- {p \in Producers : pc[p] \in {"last", "done"}},
    ended    <- {c \in Consumers : pc[c] = "done"}
ImplementsChannel == Abstract!Spec

(***************************************************************************)
(* If the threads run, every producer gets rid of its items and every      *)
(* consumer learns that the FIFO is over.                                  *)
(***************************************************************************)
EveryThreadReturns == <>(\A t \in Threads : pc[t] = "done")
==================================================================================
