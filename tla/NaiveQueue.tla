------------------------------- MODULE NaiveQueue -------------------------------
(***************************************************************************)
(* src/naive_queue.hpp: a shared bounded buffer (NaiveQueueMaster) under   *)
(* one mutex and two condition variables, and one NaiveQueueImpl per       *)
(* thread, a local buffer that is filled (producers) or emptied            *)
(* (consumers) without a lock and moved in bulk when it is full (empty).   *)
(* An observer may change the capacity of a local buffer, its step, at run *)
(* time; the owner applies the change between two operations.              *)
(*                                                                         *)
(* A critical section of the mutex is one action.  A buffer is a sequence: *)
(* RingBuffer shows that the arrays are.  A condition variable is the set  *)
(* of threads that wait on it; a thread that left the set takes the mutex  *)
(* again and reevaluates the condition of its while loop.                  *)
(***************************************************************************)
EXTENDS Naturals, Sequences, FiniteSets

CONSTANTS Producers, Consumers,
          N,               \* bound: items a producer pushes at most
          Capacity,        \* capacity of the shared buffer
          InitStep,        \* InitStep[t]: first step of thread t
          NewSteps,        \* steps the observer may ask for
          MaxRequests,     \* bound: reconfigurations asked of one thread
          Spurious         \* TRUE: waits may return without a notification

Threads == Producers \cup Consumers

ASSUME ThreadsAssumption == /\ Producers \cap Consumers = {}
                            /\ IsFiniteSet(Producers)
                            /\ Producers # {}
ASSUME SizesAssumption == /\ N \in Nat
                          /\ Capacity \in Nat \ {0}
                          /\ InitStep \in [Threads -> Nat \ {0}]
                          /\ NewSteps \subseteq Nat
                          /\ MaxRequests \in Nat
                          /\ Spurious \in BOOLEAN

VARIABLES
    buf,              \* NaiveQueueMaster::_buf
    nTerminated,      \* NaiveQueueMaster::_n_terminated
    notEmpty,         \* threads waiting on _not_empty
    notFull,          \* threads waiting on _not_full
    local,            \* the local buffer of each thread
    step,             \* its capacity, _size - 1
    newStep,          \* _new_step
    needReconfigure,  \* _need_reconfigure
    reconfigured,     \* _reconfigured
    pc,               \* where each thread stands in its operation
    asking,           \* the observer wrote _new_step, not yet the flag
    asked,            \* reconfigurations asked of each thread
    pushed,           \* history: items each producer has pushed
    taken             \* history: items each consumer has popped

master    == <<buf, nTerminated, notEmpty, notFull>>
request   == <<newStep, needReconfigure, asking, asked>>
vars == <<master, local, step, request, reconfigured, pc, pushed, taken>>

Init == /\ buf = <<>>
        /\ nTerminated = 0
        /\ notEmpty = {} /\ notFull = {}
        /\ local = [t \in Threads |-> <<>>]
        /\ step = InitStep
        /\ newStep = InitStep
        /\ needReconfigure = [t \in Threads |-> FALSE]
        /\ reconfigured = [t \in Threads |-> FALSE]
        /\ pc = [t \in Threads |-> "ready"]
        /\ asking = [t \in Threads |-> FALSE]
        /\ asked = [t \in Threads |-> 0]
        /\ pushed = [p \in Producers |-> 0]
        /\ taken = [c \in Consumers |-> <<>>]

Goto(t, label) == pc' = [pc EXCEPT ![t] = label]

Terminated == nTerminated = Cardinality(Producers)
LocalFull(t) == Len(local[t]) = step[t]

Least(m, n) == IF m < n THEN m ELSE n

First(n, s) == SubSeq(s, 1, n)
Rest(n, s)  == SubSeq(s, n + 1, Len(s))
---------------------------------------------------------------------------------
(* Producers *)

\* push: the answer of push_local is not looked at.
Push(p) ==
    LET full == Len(local[p]) + 1 >= step[p] IN
    /\ pc[p] = "ready"
    /\ pushed[p] < N
    /\ pushed' = [pushed EXCEPT ![p] = @ + 1]
    /\ IF LocalFull(p)
       THEN UNCHANGED local
       ELSE local' = [local EXCEPT ![p] = Append(@, <<p, pushed[p] + 1>>)]
    /\ Goto(p, IF full THEN "enqueue" ELSE "check")
    /\ UNCHANGED <<master, step, request, reconfigured, taken>>

\* force_push, which a thread calls when it is idle on its other queue.
ForcePush(p) ==
    /\ pc[p] = "ready"
    /\ local[p] # <<>>
    /\ Goto(p, "flush")
    /\ UNCHANGED <<master, local, step, request, reconfigured, pushed, taken>>

Terminate(p) ==
    /\ pc[p] = "ready"
    /\ Goto(p, "terminate")
    /\ UNCHANGED <<master, local, step, request, reconfigured, pushed, taken>>

\* Mutated form: the loop does not stop at a full shared buffer.
TransferPastCapacity(p, limit) ==
    LET n == Least(limit, Len(local[p])) IN
    /\ buf' = buf \o First(n, local[p])
    /\ local' = [local EXCEPT ![p] = Rest(n, @)]
    /\ notEmpty' = IF n > 0 THEN {} ELSE notEmpty

\* Mutated form: what did not fit is taken out of the local buffer as well.
TransferLosingTheRest(p, limit) ==
    LET n == Least(limit, Least(Capacity - Len(buf), Len(local[p]))) IN
    /\ buf' = buf \o First(n, local[p])
    /\ local' = [local EXCEPT ![p] = Rest(limit, @)]
    /\ notEmpty' = IF n > 0 THEN {} ELSE notEmpty

\* enqueue_no_timing, the loop of the transfer
Transfer(p, limit) ==
    LET n == Least(limit, Least(Capacity - Len(buf), Len(local[p]))) IN
    /\ buf' = buf \o First(n, local[p])
    /\ local' = [local EXCEPT ![p] = Rest(n, @)]
    /\ notEmpty' = IF n > 0 THEN {} ELSE notEmpty

AfterEnqueue == [enqueue |-> "check", flush |-> "ready", terminate |-> "terminate"]

Enqueue(p) ==
    /\ pc[p] \in {"enqueue", "flush"} \/ (pc[p] = "terminate" /\ local[p] # <<>>)
    /\ p \notin notFull
    /\ \/ /\ Len(buf) = Capacity
          /\ notFull' = notFull \cup {p}
          /\ UNCHANGED <<buf, local, notEmpty, pc>>
       \/ /\ Len(buf) < Capacity
          /\ Transfer(p, IF pc[p] = "flush" THEN Len(local[p]) ELSE step[p])
          /\ Goto(p, AfterEnqueue[pc[p]])
          /\ UNCHANGED notFull
    /\ UNCHANGED <<nTerminated, step, request, reconfigured, pushed, taken>>

\* Mutated form: the last producer does not wake the consumers.
MasterTerminateSilently(p) ==
    /\ pc[p] = "terminate"
    /\ local[p] = <<>>
    /\ nTerminated' = nTerminated + 1
    /\ Goto(p, "done")
    /\ UNCHANGED <<buf, notFull, notEmpty, local, step, request, reconfigured, pushed, taken>>

\* Mutated form: what one enqueue could not move is not flushed before terminating.
MasterTerminateUnflushed(p) ==
    /\ pc[p] = "terminate"
    /\ nTerminated' = nTerminated + 1
    /\ notEmpty' = IF nTerminated' = Cardinality(Producers) THEN {} ELSE notEmpty
    /\ Goto(p, "done")
    /\ UNCHANGED <<buf, notFull, local, step, request, reconfigured, pushed, taken>>

\* NaiveQueueMaster::terminate, once the local buffer is empty
MasterTerminate(p) ==
    /\ pc[p] = "terminate"
    /\ local[p] = <<>>
    /\ nTerminated' = nTerminated + 1
    /\ notEmpty' = IF nTerminated' = Cardinality(Producers) THEN {} ELSE notEmpty
    /\ Goto(p, "done")
    /\ UNCHANGED <<buf, notFull, local, step, request, reconfigured, pushed, taken>>
---------------------------------------------------------------------------------
(* Consumers *)

\* Mutated form: the consumer does not look whether anything is left.
DequeueEndsEarly(c) ==
    /\ pc[c] = "ready"
    /\ local[c] = <<>>
    /\ c \notin notEmpty
    /\ \/ /\ Terminated
          /\ Goto(c, "done")
          /\ UNCHANGED <<buf, notFull, notEmpty, local>>
       \/ /\ buf = <<>> /\ ~Terminated
          /\ notEmpty' = notEmpty \cup {c}
          /\ UNCHANGED <<buf, notFull, local, pc>>
       \/ /\ buf # <<>> /\ ~Terminated
          /\ local' = [local EXCEPT ![c] = First(Least(step[c], Len(buf)), buf)]
          /\ buf' = Rest(Least(step[c], Len(buf)), buf)
          /\ notFull' = {}
          /\ UNCHANGED <<notEmpty, pc>>
    /\ UNCHANGED <<nTerminated, step, request, reconfigured, pushed, taken>>

\* Mutated form: the producers that wait for a free place are not woken.
DequeueSilently(c) ==
    LET n == Least(step[c], Least(Len(buf), step[c] - Len(local[c]))) IN
    /\ pc[c] = "ready"
    /\ local[c] = <<>>
    /\ c \notin notEmpty
    /\ \/ /\ buf = <<>> /\ ~Terminated
          /\ notEmpty' = notEmpty \cup {c}
          /\ UNCHANGED <<buf, local, pc>>
       \/ /\ buf = <<>> /\ Terminated
          /\ Goto(c, "done")
          /\ UNCHANGED <<buf, notEmpty, local>>
       \/ /\ buf # <<>>
          /\ local' = [local EXCEPT ![c] = @ \o First(n, buf)]
          /\ buf' = Rest(n, buf)
          /\ UNCHANGED <<notEmpty, pc>>
    /\ UNCHANGED <<nTerminated, notFull, step, request, reconfigured, pushed, taken>>

\* dequeue_no_timing, entered by pop when the local buffer is empty
Dequeue(c) ==
    LET n == Least(step[c], Least(Len(buf), step[c] - Len(local[c]))) IN
    /\ pc[c] = "ready"
    /\ local[c] = <<>>
    /\ c \notin notEmpty
    /\ \/ /\ buf = <<>> /\ ~Terminated
          /\ notEmpty' = notEmpty \cup {c}
          /\ UNCHANGED <<buf, notFull, local, pc>>
       \/ /\ buf = <<>> /\ Terminated
          /\ Goto(c, "done")
          /\ UNCHANGED <<buf, notFull, notEmpty, local>>
       \/ /\ buf # <<>>
          /\ local' = [local EXCEPT ![c] = @ \o First(n, buf)]
          /\ buf' = Rest(n, buf)
          /\ notFull' = IF n > 0 THEN {} ELSE notFull
          /\ UNCHANGED <<notEmpty, pc>>
    /\ UNCHANGED <<nTerminated, step, request, reconfigured, pushed, taken>>

PopLocal(c) ==
    /\ taken' = [taken EXCEPT ![c] = Append(@, Head(local[c]))]
    /\ local' = [local EXCEPT ![c] = Tail(@)]

\* The last part of push and of pop: a consumer pops its item there.
Finish(t) ==
    /\ Goto(t, "ready")
    /\ IF t \in Consumers THEN PopLocal(t) ELSE UNCHANGED <<taken, local>>
---------------------------------------------------------------------------------
(* Reconfiguration *)

\* The load of _need_reconfigure that ends push and pop
Check(t) ==
    /\ \/ t \in Producers /\ pc[t] = "check"
       \/ t \in Consumers /\ pc[t] = "ready" /\ local[t] # <<>>
    /\ IF needReconfigure[t]
       THEN Goto(t, "resize") /\ UNCHANGED <<taken, local>>
       ELSE Finish(t)
    /\ UNCHANGED <<master, step, request, reconfigured, pushed>>

\* Mutated form: a resize that leaves no free place is accepted.
FitsExactly(t, s) == s >= step[t] \/ Len(local[t]) <= s

Fits(t, s) == s >= step[t] \/ Len(local[t]) < s

\* Mutated form: the flag is taken down although the resize was refused.
ResizeForgetsRefusal(t) ==
    /\ pc[t] = "resize"
    /\ step' = [step EXCEPT ![t] = IF Fits(t, newStep[t]) THEN newStep[t] ELSE @]
    /\ Goto(t, "clear")
    /\ UNCHANGED <<local, taken, master, request, reconfigured, pushed>>

\* resize(_new_step): refused, and left for the next operation, if it does not fit
Resize(t) ==
    /\ pc[t] = "resize"
    /\ \/ /\ Fits(t, newStep[t])
          /\ step' = [step EXCEPT ![t] = newStep[t]]
          /\ Goto(t, "clear")
          /\ UNCHANGED <<local, taken>>
       \/ /\ ~Fits(t, newStep[t])
          /\ Finish(t)
          /\ UNCHANGED step
    /\ UNCHANGED <<master, request, reconfigured, pushed>>

\* The stores that follow an accepted resize
Clear(t) ==
    /\ pc[t] = "clear"
    /\ reconfigured' = [reconfigured EXCEPT ![t] = TRUE]
    /\ needReconfigure' = [needReconfigure EXCEPT ![t] = FALSE]
    /\ Finish(t)
    /\ UNCHANGED <<master, step, newStep, asking, asked, pushed>>

\* prepare_reconfigure, called by the thread that triggers the observer: the
\* plain store of the step, then the store of the flag
WriteNewStep(t, s) ==
    /\ asked[t] < MaxRequests
    /\ ~asking[t]
    /\ asking' = [asking EXCEPT ![t] = TRUE]
    /\ newStep' = [newStep EXCEPT ![t] = s]
    /\ UNCHANGED <<master, local, step, needReconfigure, asked, reconfigured, pc, pushed, taken>>

RaiseFlag(t) ==
    /\ asking[t]
    /\ asking' = [asking EXCEPT ![t] = FALSE]
    /\ asked' = [asked EXCEPT ![t] = @ + 1]
    /\ needReconfigure' = [needReconfigure EXCEPT ![t] = TRUE]
    /\ UNCHANGED <<master, local, step, newStep, reconfigured, pc, pushed, taken>>
---------------------------------------------------------------------------------
SpuriousWakeup(t) ==
    /\ Spurious
    /\ t \in notEmpty \cup notFull
    /\ notEmpty' = notEmpty \ {t}
    /\ notFull' = notFull \ {t}
    /\ UNCHANGED <<buf, nTerminated, local, step, request, reconfigured, pc, pushed, taken>>

Finished == /\ \A t \in Threads : pc[t] = "done"
            /\ UNCHANGED vars

Producer(p) == \/ Push(p) \/ ForcePush(p) \/ Terminate(p)
               \/ Enqueue(p) \/ MasterTerminate(p)
Consumer(c) == Dequeue(c)
Reconfigure(t) == Check(t) \/ Resize(t) \/ Clear(t)
Observer(t) == RaiseFlag(t) \/ \E s \in NewSteps : WriteNewStep(t, s)

Next == \/ \E p \in Producers : Producer(p)
        \/ \E c \in Consumers : Consumer(c)
        \/ \E t \in Threads : Reconfigure(t) \/ Observer(t) \/ SpuriousWakeup(t)
        \/ Finished

\* Threads run; nothing obliges the observer to ask for anything.
Fairness == /\ \A p \in Producers : WF_vars(Producer(p) \/ Reconfigure(p))
            /\ \A c \in Consumers : WF_vars(Consumer(c) \/ Reconfigure(c))

Spec == Init /\ [][Next]_vars
FairSpec == Spec /\ Fairness
---------------------------------------------------------------------------------
Item == Producers \X (1..N)
Label == {"ready", "enqueue", "flush", "check", "resize", "clear", "terminate", "done"}

TypeOK == /\ buf \in Seq(Item) /\ Len(buf) <= Capacity
          /\ nTerminated \in 0..Cardinality(Producers)
          /\ notEmpty \subseteq Consumers /\ notFull \subseteq Producers
          /\ local \in [Threads -> Seq(Item)]
          /\ \A t \in Threads : Len(local[t]) <= step[t]
          /\ step \in [Threads -> Nat \ {0}]
          /\ newStep \in [Threads -> Nat]
          /\ needReconfigure \in [Threads -> BOOLEAN]
          /\ reconfigured \in [Threads -> BOOLEAN]
          /\ pc \in [Threads -> Label]
          /\ asking \in [Threads -> BOOLEAN]
          /\ asked \in [Threads -> Nat]
          /\ pushed \in [Producers -> 0..N]
          /\ taken \in [Consumers -> Seq(Item)]

(***************************************************************************)
(* push ignores what push_local answers, so an item pushed into a full     *)
(* local buffer would vanish: whenever a producer may push, its buffer has *)
(* a free place, however little of it the last enqueue could move and      *)
(* whatever resize was accepted in between.                                *)
(***************************************************************************)
RoomToPush == \A p \in Producers : pc[p] = "ready" => Len(local[p]) < step[p]

(***************************************************************************)
(* Nobody sleeps while there is something to do: a consumer waits on       *)
(* _not_empty only while the shared buffer is empty and a producer is      *)
(* still active, a producer waits on _not_full only while it is full.      *)
(***************************************************************************)
NoLostWakeup == /\ notEmpty # {} => buf = <<>> /\ ~Terminated
                /\ notFull # {} => Len(buf) = Capacity

(***************************************************************************)
(* A consumer is told that the queue is over only when it is: all          *)
(* producers have terminated, with their local buffers flushed, and the    *)
(* shared buffer is empty, so no item is stranded anywhere.                *)
(***************************************************************************)
EndMeansDrained ==
    (\E c \in Consumers : pc[c] = "done") =>
        /\ buf = <<>>
        /\ \A p \in Producers : pc[p] = "done" /\ local[p] = <<>>

(***************************************************************************)
(* The inductive invariant behind the three properties above.  Where a     *)
(* thread stands says how full its local buffer is: a producer leaves      *)
(* enqueue with a free place and has nothing left when it is done, and a   *)
(* consumer reconfigures only with an item in hand.                        *)
(***************************************************************************)
ProducerBuffers ==
    \A p \in Producers :
        /\ pc[p] \in {"ready", "flush", "check", "resize", "clear"} => Len(local[p]) < step[p]
        /\ pc[p] = "flush" => local[p] # <<>>
        /\ pc[p] = "enqueue" => Len(local[p]) = step[p]
        /\ pc[p] = "done" => local[p] = <<>>

ConsumerBuffers ==
    \A c \in Consumers :
        /\ pc[c] \in {"ready", "resize", "clear", "done"}
        /\ pc[c] \in {"resize", "clear"} => local[c] # <<>>

Gone == {p \in Producers : pc[p] = "done"}

Inv == /\ TypeOK
       /\ ProducerBuffers
       /\ ConsumerBuffers
       /\ nTerminated = Cardinality(Gone)
       /\ NoLostWakeup
       /\ EndMeansDrained

(***************************************************************************)
(* A reconfiguration is applied or still pending: once the observer has    *)
(* raised the flag of a thread, either the flag is up or the thread has    *)
(* the step that was asked for.                                            *)
(***************************************************************************)
RequestTakesEffect ==
    \A t \in Threads : asked[t] > 0 /\ ~needReconfigure[t] /\ ~asking[t] => step[t] = newStep[t]

(***************************************************************************)
(* The queue implements the channel: what is in a producer's local buffer  *)
(* or in the shared one is unclaimed, a consumer's local buffer is claimed.*)
(***************************************************************************)
Elements(s) == {s[i] : i \in DOMAIN s}

Abstract == INSTANCE Channel WITH
    sent     <- pushed,
    pool     <- Elements(buf) \cup UNION {Elements(local[p]) : p \in Producers},
    claimed  <- [c \in Consumers |-> local[c]],
    received <- taken,
    closed   <- {p \in Producers : pc[p] = "done"},
    ended    <- {c \in Consumers : pc[c] = "done"}
ImplementsChannel == Abstract!Spec

(***************************************************************************)
(* If the threads run, every one of them returns: no producer stays in     *)
(* enqueue and every consumer learns that the queue is over, whatever is   *)
(* reconfigured meanwhile.                                                 *)
(***************************************************************************)
EveryThreadReturns == <>(\A t \in Threads : pc[t] = "done")
=================================================================================
