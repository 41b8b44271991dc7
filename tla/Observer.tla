-------------------------------- MODULE Observer --------------------------------
(***************************************************************************)
(* src/naive_queue.tpp: the observer of a queue.  The threads report how   *)
(* long their work and their synchronizations take; once enough reports    *)
(* are in, one of the reporting threads computes new steps and asks every  *)
(* local queue to reconfigure.  The producers then time the queue as it is *)
(* reconfigured and a second reconfiguration follows.                      *)
(*                                                                         *)
(* The reports are counted with fetch_add, without a lock: a thread holds  *)
(* the count it got, looks at the other side's counter later, and triggers *)
(* if its own count was the last one wanted and the other side is done.    *)
(*                                                                         *)
(* A thread repeats the loop of the stages of dedup/encode_naive_queue.cpp *)
(* for ever: generic_push or pop, then add_work_time while it is wanted.   *)
(* Of its local buffer, which NaiveQueue models, only the number of        *)
(* elements matters here.  The computed steps are parameters.              *)
(***************************************************************************)
EXTENDS Naturals, FiniteSets

CONSTANTS Producers, Consumers,
          Phantoms,          \* producers whose reports are ignored
          FirstN, SecondN,   \* _n_first_reconf, _n_second_reconf
          InitStep,          \* the step of every local queue at first
          FirstStep,         \* FirstStep[t]: what the first trigger asks of t
          SecondStep         \* SecondStep[t]: what the second one asks of t

Pushers == Producers \cup Phantoms
Threads == Pushers \cup Consumers

ASSUME ObserverThreads == /\ Producers \cap Consumers = {}
                          /\ Phantoms \cap (Producers \cup Consumers) = {}
                          /\ IsFiniteSet(Threads)
ASSUME ObserverSizes == /\ FirstN \in Nat \ {0} /\ SecondN \in Nat \ {0}
                        /\ InitStep \in Nat \ {0}
                        /\ FirstStep \in [Threads -> Nat \ {0}]
                        /\ SecondStep \in [Threads -> Nat]

\* Mutated form: the two reports of an iteration are counted as one.
MaxIterations == FirstN * Cardinality(Producers)

MaxProducers == FirstN * 2 * Cardinality(Producers)
MaxConsumers == FirstN * Cardinality(Consumers)
MaxSecond    == SecondN * 2 * Cardinality(Producers)

VARIABLES
    producerCount,   \* _producer_count
    consumerCount,   \* _consumer_count
    secondCount,     \* _producer_count_second_phase
    triggered,       \* Observer::_reconfigured
    triggeredTwice,  \* Observer::_reconfigured_twice
    pushTimes,       \* whether _push_times of a producer holds anything
    fill,            \* _n_elements of each local queue
    step,            \* its step
    newStep,         \* _new_step
    flag,            \* _need_reconfigure
    applied,         \* NaiveQueueImpl::_reconfigured
    timing,          \* _need_observer_push of each producer
    phase,           \* the function _observer_fn points to, "first" or "second"
    timingWork,      \* push_work_output and push_work_input in the stages
    call,            \* the report a thread is making, "sync" or "work"
    old,             \* the count fetch_add returned to it
    todo,            \* the queues its trigger has not asked yet
    pc

counters == <<producerCount, consumerCount, secondCount>>
triggers == <<triggered, triggeredTwice>>
buffers  == <<fill, step, applied>>
requests == <<newStep, flag>>
caller   == <<timing, phase, timingWork>>
vars == <<counters, triggers, pushTimes, buffers, requests, caller, call, old, todo, pc>>

Init == /\ producerCount = 0 /\ consumerCount = 0 /\ secondCount = 0
        /\ triggered = FALSE /\ triggeredTwice = FALSE
        /\ pushTimes = [p \in Pushers |-> FALSE]
        /\ fill = [t \in Threads |-> 0]
        /\ step = [t \in Threads |-> InitStep]
        /\ newStep = [t \in Threads |-> 0]
        /\ flag = [t \in Threads |-> FALSE]
        /\ applied = [t \in Threads |-> FALSE]
        /\ timing = [p \in Pushers |-> TRUE]
        /\ phase = [p \in Pushers |-> "first"]
        /\ timingWork = [t \in Threads |-> TRUE]
        /\ call = [t \in Threads |-> "work"]
        /\ old = [t \in Threads |-> 0]
        /\ todo = [t \in Threads |-> {}]
        /\ pc = [t \in Threads |-> "ready"]

Goto(t, label) == pc' = [pc EXCEPT ![t] = label]

\* Whether the report belongs to the second phase
Second(t) == call[t] = "sync" /\ phase[t] = "second"
---------------------------------------------------------------------------------
\* generic_push: timed_push, or push once nothing needs to be timed
GenericPush(p) ==
    LET n == fill[p] + 1 IN
    /\ pc[p] = "ready"
    /\ \/ /\ n < step[p]
          /\ fill' = [fill EXCEPT ![p] = n]
          /\ Goto(p, "check")
          /\ UNCHANGED call
       \/ /\ n >= step[p]
          /\ \E left \in 0..n-1 : fill' = [fill EXCEPT ![p] = left]
          /\ IF timing[p]
             THEN Goto(p, "count") /\ call' = [call EXCEPT ![p] = "sync"]
             ELSE Goto(p, "check") /\ UNCHANGED call
    /\ UNCHANGED <<counters, triggers, pushTimes, step, applied, requests, caller, old, todo>>

\* pop, up to its dequeue
Pop(c) ==
    /\ pc[c] = "ready"
    /\ IF fill[c] = 0
       THEN \E n \in 1..step[c] : fill' = [fill EXCEPT ![c] = n]
       ELSE UNCHANGED fill
    /\ Goto(c, "check")
    /\ UNCHANGED <<counters, triggers, pushTimes, step, applied, requests, caller, call, old, todo>>

Fits(t) == newStep[t] >= step[t] \/ fill[t] < newStep[t]

\* The end of push and of pop, and the test of the stage before add_work_time.
\* One step here: NaiveQueue splits it where a second request can slip in.
Reconfigure(t) ==
    LET resized == flag[t] /\ Fits(t) IN
    /\ pc[t] = "check"
    /\ step' = [step EXCEPT ![t] = IF resized THEN newStep[t] ELSE @]
    /\ applied' = [applied EXCEPT ![t] = @ \/ resized]
    /\ flag' = [flag EXCEPT ![t] = @ /\ ~resized]
    /\ fill' = [fill EXCEPT ![t] = IF t \in Consumers THEN @ - 1 ELSE @]
    /\ IF timingWork[t] /\ (t \in Pushers => timing[t])
       THEN Goto(t, "count") /\ call' = [call EXCEPT ![t] = "work"]
       ELSE Goto(t, "ready") /\ UNCHANGED call
    /\ UNCHANGED <<counters, triggers, pushTimes, newStep, caller, old, todo>>
---------------------------------------------------------------------------------
(***************************************************************************)
(* What the caller does with the answer of the observer.  A producer that  *)
(* need not report any more turns to the second phase, if its queue has    *)
(* not been reconfigured yet.                                              *)
(***************************************************************************)
Answer(t, wanted) ==
    IF call[t] = "sync"
    THEN /\ timing' = [timing EXCEPT ![t] = wanted \/ ~applied[t]]
         /\ phase' = [phase EXCEPT ![t] = IF wanted \/ applied[t] THEN @ ELSE "second"]
         /\ Goto(t, "check")
         /\ UNCHANGED timingWork
    ELSE /\ timingWork' = [timingWork EXCEPT ![t] = wanted]
         /\ Goto(t, "ready")
         /\ UNCHANGED <<timing, phase>>

Count(t)    == IF t \in Producers THEN producerCount ELSE consumerCount
Max(t)      == IF t \in Producers THEN MaxProducers ELSE MaxConsumers
OtherDone(t) == IF t \in Producers THEN consumerCount >= MaxConsumers
                                   ELSE producerCount >= MaxProducers

IgnorePhantom(p) ==
    /\ pc[p] = "count"
    /\ Answer(p, FALSE)
    /\ UNCHANGED <<counters, triggers, pushTimes, buffers, requests, call, old, todo>>

\* Mutated form: the report that reaches the count is refused as one too many.
CountFirstShort(t) ==
    /\ pc[t] = "count" /\ ~Second(t)
    /\ old' = [old EXCEPT ![t] = Count(t)]
    /\ IF t \in Producers
       THEN producerCount' = producerCount + 1 /\ UNCHANGED consumerCount
       ELSE consumerCount' = consumerCount + 1 /\ UNCHANGED producerCount
    /\ IF Count(t) >= Max(t)
       THEN Answer(t, FALSE)
       ELSE Goto(t, "record") /\ UNCHANGED caller
    /\ UNCHANGED <<secondCount, triggers, pushTimes, buffers, requests, call, todo>>

\* add_work_time and add_producer_synchronization_time_first, the fetch_add
CountFirst(t) ==
    /\ pc[t] = "count" /\ ~Second(t)
    /\ old' = [old EXCEPT ![t] = Count(t)]
    /\ IF t \in Producers
       THEN producerCount' = producerCount + 1 /\ UNCHANGED consumerCount
       ELSE consumerCount' = consumerCount + 1 /\ UNCHANGED producerCount
    /\ IF Count(t) > Max(t)
       THEN Answer(t, FALSE)
       ELSE Goto(t, "record") /\ UNCHANGED caller
    /\ UNCHANGED <<secondCount, triggers, pushTimes, buffers, requests, call, todo>>

\* Mutated form: the other side's counter is not looked at.
RecordFirstAlone(t) ==
    /\ pc[t] = "record"
    /\ pushTimes' = IF call[t] = "sync" THEN [pushTimes EXCEPT ![t] = TRUE] ELSE pushTimes
    /\ IF old[t] = Max(t)
       THEN Goto(t, "trigger") /\ UNCHANGED caller
       ELSE Answer(t, TRUE)
    /\ UNCHANGED <<counters, triggers, buffers, requests, call, old, todo>>

\* Their second half: the push_back and the load of the other counter
RecordFirst(t) ==
    /\ pc[t] = "record"
    /\ pushTimes' = IF call[t] = "sync" THEN [pushTimes EXCEPT ![t] = TRUE] ELSE pushTimes
    /\ IF old[t] = Max(t) /\ OtherDone(t)
       THEN Goto(t, "trigger") /\ UNCHANGED caller
       ELSE Answer(t, TRUE)
    /\ UNCHANGED <<counters, triggers, buffers, requests, call, old, todo>>

\* Mutated form: was_reconfigured is not looked at.
CountSecondEarly(p) ==
    /\ pc[p] = "count" /\ Second(p)
    /\ old' = [old EXCEPT ![p] = secondCount]
    /\ secondCount' = secondCount + 1
    /\ IF secondCount = MaxSecond
       THEN Goto(p, "trigger") /\ UNCHANGED caller
       ELSE Answer(p, secondCount < MaxSecond)
    /\ UNCHANGED <<producerCount, consumerCount, triggers, pushTimes, buffers, requests, call, todo>>

\* add_producer_synchronization_time_second
CountSecond(p) ==
    /\ pc[p] = "count" /\ Second(p)
    /\ \/ /\ ~applied[p]
          /\ Answer(p, TRUE)
          /\ UNCHANGED <<secondCount, old>>
       \/ /\ applied[p]
          /\ old' = [old EXCEPT ![p] = secondCount]
          /\ secondCount' = secondCount + 1
          /\ IF secondCount = MaxSecond
             THEN Goto(p, "trigger") /\ UNCHANGED caller
             ELSE Answer(p, secondCount < MaxSecond)
    /\ UNCHANGED <<producerCount, consumerCount, triggers, pushTimes, buffers, requests, call, todo>>
---------------------------------------------------------------------------------
\* Mutated form: only the queues whose reports count are asked.
TriggerReporters(t) ==
    LET done == IF Second(t) THEN triggeredTwice ELSE triggered IN
    /\ pc[t] = "trigger"
    /\ IF Second(t)
       THEN triggeredTwice' = TRUE /\ UNCHANGED triggered
       ELSE triggered' = TRUE /\ UNCHANGED triggeredTwice
    /\ IF done
       THEN Answer(t, FALSE) /\ UNCHANGED todo
       ELSE /\ Goto(t, "prepare") /\ UNCHANGED caller
            /\ todo' = [todo EXCEPT ![t] = Producers \cup Consumers]
    /\ UNCHANGED <<counters, pushTimes, buffers, requests, call, old>>

\* Mutated form: the answer of the compare_exchange is not looked at.
TriggerAnew(t) ==
    /\ pc[t] = "trigger"
    /\ IF Second(t)
       THEN triggeredTwice' = TRUE /\ UNCHANGED triggered
       ELSE triggered' = TRUE /\ UNCHANGED triggeredTwice
    /\ Goto(t, "prepare")
    /\ todo' = [todo EXCEPT ![t] = Threads]
    /\ UNCHANGED <<counters, pushTimes, buffers, requests, caller, call, old>>

\* trigger_reconfigure: the compare_exchange, ...
Trigger(t) ==
    LET done == IF Second(t) THEN triggeredTwice ELSE triggered IN
    /\ pc[t] = "trigger"
    /\ IF Second(t)
       THEN triggeredTwice' = TRUE /\ UNCHANGED triggered
       ELSE triggered' = TRUE /\ UNCHANGED triggeredTwice
    /\ IF done
       THEN Answer(t, FALSE) /\ UNCHANGED todo
       ELSE /\ Goto(t, "prepare") /\ UNCHANGED caller
            /\ todo' = [todo EXCEPT ![t] = Threads]
    /\ UNCHANGED <<counters, pushTimes, buffers, requests, call, old>>

\* ... and the loop of prepare_reconfigure, over a map ordered by address
Prepare(t, q) ==
    /\ pc[t] = "prepare"
    /\ q \in todo[t]
    /\ newStep' = [newStep EXCEPT ![q] = IF Second(t) THEN SecondStep[q] ELSE FirstStep[q]]
    /\ flag' = [flag EXCEPT ![q] = TRUE]
    /\ todo' = [todo EXCEPT ![t] = @ \ {q}]
    /\ UNCHANGED <<counters, triggers, pushTimes, buffers, caller, call, old, pc>>

Prepared(t) ==
    /\ pc[t] = "prepare"
    /\ todo[t] = {}
    /\ Answer(t, FALSE)
    /\ UNCHANGED <<counters, triggers, pushTimes, buffers, requests, call, old, todo>>
---------------------------------------------------------------------------------
Triggering(t) == Trigger(t) \/ Prepared(t) \/ \E q \in Threads : Prepare(t, q)

ProducerStep(p) == \/ GenericPush(p) \/ Reconfigure(p)
                   \/ CountFirst(p) \/ RecordFirst(p) \/ CountSecond(p) \/ Triggering(p)
PhantomStep(p)  == GenericPush(p) \/ Reconfigure(p) \/ IgnorePhantom(p)
ConsumerStep(c) == Pop(c) \/ Reconfigure(c) \/ CountFirst(c) \/ RecordFirst(c) \/ Triggering(c)

Next == \/ \E p \in Producers : ProducerStep(p)
        \/ \E p \in Phantoms : PhantomStep(p)
        \/ \E c \in Consumers : ConsumerStep(c)

\* Every thread runs: the stages always have a next item.
Fairness == /\ \A p \in Producers : WF_vars(ProducerStep(p))
            /\ \A p \in Phantoms : WF_vars(PhantomStep(p))
            /\ \A c \in Consumers : WF_vars(ConsumerStep(c))

Spec == Init /\ [][Next]_vars
FairSpec == Spec /\ Fairness
---------------------------------------------------------------------------------
Label == {"ready", "count", "record", "trigger", "prepare", "check"}

TypeOK == /\ producerCount \in Nat /\ consumerCount \in Nat /\ secondCount \in Nat
          /\ triggered \in BOOLEAN /\ triggeredTwice \in BOOLEAN
          /\ pushTimes \in [Pushers -> BOOLEAN]
          /\ fill \in [Threads -> Nat]
          /\ step \in [Threads -> Nat \ {0}]
          /\ newStep \in [Threads -> Nat]
          /\ flag \in [Threads -> BOOLEAN]
          /\ applied \in [Threads -> BOOLEAN]
          /\ timing \in [Pushers -> BOOLEAN]
          /\ phase \in [Pushers -> {"first", "second"}]
          /\ timingWork \in [Threads -> BOOLEAN]
          /\ call \in [Threads -> {"sync", "work"}]
          /\ \A c \in Consumers : call[c] = "work" /\ (pc[c] = "check" => fill[c] # 0)
          /\ old \in [Threads -> Nat]
          /\ todo \in [Threads -> SUBSET Threads]
          /\ pc \in [Threads -> Label]

(***************************************************************************)
(* The averages are taken over enough reports of both sides: the observer  *)
(* is not triggered before every side has made all the reports wanted.     *)
(***************************************************************************)
EnoughReports == triggered => producerCount >= MaxProducers /\ consumerCount >= MaxConsumers

Deciding(t) == pc[t] \in {"record", "trigger"} /\ ~Second(t) /\ old[t] = Max(t)

NoMissedTrigger ==
    producerCount > MaxProducers /\ consumerCount > MaxConsumers =>
        triggered \/ \E t \in Producers \cup Consumers : Deciding(t)

OneAsks ==
    \A t, u \in Producers \cup Consumers :
        pc[t] = "prepare" /\ pc[u] = "prepare" /\ (Second(t) <=> Second(u)) => t = u

(***************************************************************************)
(* The trigger is neither missed nor doubled.  When both sides have made   *)
(* one report more than wanted, one of the two threads whose report was    *)
(* the last one of its side, whichever looked second, sees the other side  *)
(* done.  Both may see it: then only one of them asks the queues for new   *)
(* steps, and in no phase do two threads ever go through the queues.       *)
(***************************************************************************)
TriggeredOnce == NoMissedTrigger /\ OneAsks

(***************************************************************************)
(* When the steps are computed some producer has recorded a push time, so  *)
(* that std::min_element finds one: provided that a local queue fills up   *)
(* before the reports of work alone reach the count (InitStep < 2*FirstN). *)
(***************************************************************************)
PushTimeKnown == triggered => \E p \in Producers : pushTimes[p]

(***************************************************************************)
(* The second phase measures the queue as the first one left it: nothing   *)
(* is counted in it, and no second trigger happens, before a producer's    *)
(* own queue has been reconfigured at the request of the first trigger.    *)
(***************************************************************************)
SecondPhaseFollowsFirst ==
    secondCount > 0 => triggered /\ \E p \in Producers : applied[p] /\ phase[p] = "second"

(***************************************************************************)
(* Every local queue, phantom or not, is reconfigured in the end.          *)
(***************************************************************************)
EveryQueueReconfigured == <>(\A t \in Threads : applied[t])

(***************************************************************************)
(* The inductive invariant behind the safety properties above: a thread    *)
(* between its fetch_add and its decision holds a count the counter has    *)
(* passed, one that is about to trigger the first reconfiguration has seen *)
(* both sides done, and no queue is asked to reconfigure before that.      *)
(***************************************************************************)
BothDone == producerCount >= MaxProducers /\ consumerCount >= MaxConsumers

ReportsInFlight ==
    \A t \in Producers \cup Consumers :
        /\ pc[t] = "record" => ~Second(t) /\ Count(t) > old[t]
        /\ pc[t] = "trigger" /\ ~Second(t) => BothDone
        /\ pc[t] = "trigger" /\ Second(t) => applied[t]

AskedByTrigger ==
    \A t \in Threads : flag[t] \/ applied[t] \/ pc[t] = "prepare" => triggered

Inv == /\ TypeOK
       /\ ReportsInFlight
       /\ AskedByTrigger
       /\ EnoughReports
       /\ NoMissedTrigger
       /\ SecondPhaseFollowsFirst
=================================================================================
