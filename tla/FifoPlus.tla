-------------------------------- MODULE FifoPlus --------------------------------
(***************************************************************************)
(* FIFOPlus, src/fifo_plus.h and src/fifo_plus.tpp, as the stages of       *)
(* encode_fifo.cpp use it: POP_WAIT, and a transfer before terminate.      *)
(*                                                                         *)
(* A producer fills its _inner_buffer and moves it to _buffer when it      *)
(* holds _n elements; a consumer takes at most its own _n.  Each push that *)
(* moves a batch may reconfigure the _n of its producer, by GRADIENT, from *)
(* what the last pushes of all producers met, or by PHASE.  _n of a        *)
(* consumer never changes: its reconfiguration is an empty function.       *)
(* One critical section of _m is one action.                               *)
(***************************************************************************)
EXTENDS Integers, Sequences, FiniteSets

CONSTANTS
    Producers, Consumers,
    N, Share,                 \* items of a producer at most, and of each one
    Methods,                  \* reconfiguration methods, one of which Init chooses
    Smallest, First, Largest, \* set_n
    Taken,                    \* _n of the consumers
    NoWork, WithWork, WorkAmount,   \* set_thresholds
    Increase, Decrease,       \* set_multipliers, in percent
    HistorySize

ASSUME FifoAssumption ==
    /\ IsFiniteSet(Producers) /\ Producers \cap Consumers = {}
    /\ N \in Nat /\ Share \in [Producers -> 0..N]
    /\ Methods \subseteq {"gradient", "phase"}
    /\ {Smallest, First, Largest, Taken} \subseteq Nat \ {0}
    /\ Smallest <= First /\ First <= Largest
    /\ {NoWork, WithWork, WorkAmount, HistorySize} \subseteq Nat \ {0}
    /\ Increase \in Nat /\ Increase >= 100
    /\ Decrease \in 1..100

VARIABLES
    method,             \* _reconfigure_method
    buffer,             \* _buffer
    inner,              \* _inner_buffer of each thread
    n, exact, phase,    \* _n, __n (in hundredths) and _phase of each producer
    noWork, withWork,   \* _n_no_work and _n_with_work of each producer
    events,             \* _producer_events, the last one first
    producersDone,      \* _n_producers_done
    pc,
    pushed, taken       \* what each producer has pushed, and each consumer been given

tuning == <<n, exact, phase, noWork, withWork, events>>
vars == <<method, buffer, inner, tuning, producersDone, pc, pushed, taken>>

Item == Producers \X (1..N)

Init == /\ method \in Methods
        /\ buffer = <<>>
        /\ inner = [t \in Producers \cup Consumers |-> <<>>]
        /\ n = [p \in Producers |-> First]
        /\ exact = [p \in Producers |-> 100 * First]
        /\ phase = [p \in Producers |-> "heating"]
        /\ noWork = [p \in Producers |-> 0]
        /\ withWork = [p \in Producers |-> 0]
        /\ events = <<>>
        /\ producersDone = 0
        /\ pc = [t \in Producers \cup Consumers |-> IF t \in Producers THEN "push" ELSE "pop"]
        /\ pushed = [p \in Producers |-> 0]
        /\ taken = [c \in Consumers |-> <<>>]

terminated == producersDone = Cardinality(Producers)

AtLeastOne(m) == IF m < 1 THEN 1 ELSE m
--------------------------------------------------------------------------------
(* Reconfiguration of a producer *)

\* The counts are unsigned: with fewer empty than full buffers their difference is about 2^32.
_producer_gradient(reason, history) ==
    LET limit == IF reason = "work" THEN NoWork ELSE WithWork
        counts(event) == Cardinality({i \in DOMAIN history : i <= limit /\ history[i] = event})
        wraps == counts("empty") < counts("content")
        twice == 2 * (counts("empty") - counts("content")) + counts("low")
    IN IF ~wraps /\ twice < 6 THEN "fluctuating"
       ELSE IF reason = "work" THEN "incoherent" ELSE "coherent"

\* A reason the gradient does not support is answered by the other one, with a part of its factor.
GradientWork(m, gradient) ==
    LET changed == CASE gradient = "coherent" -> (m * Increase) \div 100
                     [] gradient = "fluctuating" -> AtLeastOne((m * (500 - Decrease)) \div 400)
                     [] gradient = "incoherent" -> AtLeastOne((m * (300 - Decrease)) \div 200)
    IN IF changed = 1 THEN 2 ELSE changed

\* Mutated form: the quantity may become 0.
GradientNoWorkToZero(m, gradient) ==
    CASE gradient = "coherent" -> (m * Decrease) \div 100
      [] gradient = "fluctuating" -> (m * (100 + 3 * Increase)) \div 400

GradientNoWork(m, gradient) ==
    LET raised == (m * (100 + 3 * Increase)) \div 400 IN
    CASE gradient = "coherent" -> AtLeastOne((m * Decrease) \div 100)
      [] gradient = "fluctuating" -> IF raised = 1 THEN 2 ELSE raised

Met == IF buffer = <<>> THEN "empty" ELSE IF Len(buffer) < WorkAmount THEN "low" ELSE "content"

Remember(event) == LET longer == <<event>> \o events
                   IN SubSeq(longer, 1, IF Len(longer) > HistorySize THEN HistorySize ELSE Len(longer))

Observe == events' = Remember(Met)

_reconfigure_producer_gradient(p) ==
    LET reason == IF Met = "empty" THEN "no work" ELSE "work"
        gradient == _producer_gradient(reason, events')
        worked == IF reason = "work" THEN withWork[p] + 1 ELSE 0
        idle == IF reason = "work" THEN 0 ELSE noWork[p] + 1
        due == worked >= WithWork \/ idle >= NoWork
        reset == due /\ gradient = "coherent"
    IN /\ n' = [n EXCEPT ![p] = IF ~due THEN @
                                ELSE IF reason = "work" THEN GradientWork(@, gradient)
                                ELSE GradientNoWork(@, gradient)]
       /\ withWork' = [withWork EXCEPT ![p] = IF reset THEN 0 ELSE worked]
       /\ noWork' = [noWork EXCEPT ![p] = IF reset THEN 0 ELSE idle]
       /\ UNCHANGED <<exact, phase>>

\* The quantity is heated up to its limit, and stays there: in the running phase the gradient
\* is always COHERENT, so the two cooling phases are never entered.
_reconfigure_phase(p) ==
    LET hotter == (exact[p] * Increase) \div 100
        full == hotter > 100 * Largest
    IN /\ IF phase[p] = "heating"
          THEN /\ exact' = [exact EXCEPT ![p] = IF full THEN 100 * Largest ELSE hotter]
               /\ n' = [n EXCEPT ![p] = exact'[p] \div 100]
               /\ phase' = [phase EXCEPT ![p] = IF full THEN "running" ELSE @]
          ELSE UNCHANGED <<exact, n, phase>>
       /\ UNCHANGED <<noWork, withWork>>
--------------------------------------------------------------------------------
Sleepers == {c \in Consumers : pc[c] = "wait"}

\* notify_one: one of the waiting consumers, if there is one
WakeOne(counter) == IF Sleepers = {} THEN pc' = counter
                    ELSE \E c \in Sleepers : pc' = [counter EXCEPT ![c] = "pop"]

\* Mutated form: nobody is told that there is something to take.
TransferSilently(p, elements, counter) ==
    /\ buffer' = buffer \o elements
    /\ inner' = [inner EXCEPT ![p] = <<>>]
    /\ pc' = counter

\* _transfer of what p holds; counter: pc but for the consumer that is woken.
_transfer(p, elements, counter) ==
    /\ buffer' = buffer \o elements
    /\ inner' = [inner EXCEPT ![p] = <<>>]
    /\ IF elements = <<>> THEN pc' = counter ELSE WakeOne(counter)

CountPush(p) == /\ pc[p] = "push" /\ pushed[p] < Share[p]
                /\ pushed' = [pushed EXCEPT ![p] = @ + 1]
                /\ UNCHANGED <<method, producersDone, taken>>

Held(p) == Append(inner[p], <<p, pushed[p] + 1>>)

push(p) == /\ CountPush(p)
           /\ \/ /\ Len(Held(p)) < n[p]
                 /\ inner' = [inner EXCEPT ![p] = Held(p)]
                 /\ UNCHANGED <<buffer, tuning, pc>>
              \/ /\ Len(Held(p)) >= n[p]
                 /\ Observe
                 /\ IF method = "gradient" THEN _reconfigure_producer_gradient(p)
                    ELSE _reconfigure_phase(p)
                 /\ _transfer(p, Held(p), pc)

\* The last push of a producer may be an immediate one.
push_immediate(p) == /\ CountPush(p) /\ pushed[p] + 1 = Share[p]
                     /\ events' = Remember("immediate")
                     /\ _transfer(p, Held(p), pc)
                     /\ UNCHANGED <<n, exact, phase, noWork, withWork>>

transfer(p) == /\ pc[p] = "push" /\ pushed[p] = Share[p]
               /\ _transfer(p, inner[p], [pc EXCEPT ![p] = "terminate"])
               /\ UNCHANGED <<method, tuning, producersDone, pushed, taken>>

\* Mutated form: the last producer wakes one consumer.
TerminateOne(p) ==
    /\ pc[p] = "terminate"
    /\ producersDone' = producersDone + 1
    /\ IF producersDone' = Cardinality(Producers) THEN WakeOne([pc EXCEPT ![p] = "done"])
       ELSE pc' = [pc EXCEPT ![p] = "done"]
    /\ UNCHANGED <<method, buffer, inner, tuning, pushed, taken>>

terminate(p) ==
    /\ pc[p] = "terminate"
    /\ producersDone' = producersDone + 1
    /\ pc' = [t \in DOMAIN pc |->
                 IF t = p THEN "done"
                 ELSE IF t \in Sleepers /\ producersDone' = Cardinality(Producers) THEN "pop"
                 ELSE pc[t]]
    /\ UNCHANGED <<method, buffer, inner, tuning, pushed, taken>>

\* Mutated form: the end is told by the producers alone.
PopTerminatedFirst(c) ==
    /\ pc[c] = "pop" /\ inner[c] = <<>>
    /\ \/ /\ ~terminated /\ buffer # <<>>
          /\ inner' = [inner EXCEPT ![c] = buffer]
          /\ buffer' = <<>>
          /\ UNCHANGED pc
       \/ /\ buffer = <<>> \/ terminated
          /\ pc' = [pc EXCEPT ![c] = IF terminated THEN "done" ELSE "wait"]
          /\ UNCHANGED <<buffer, inner>>
    /\ UNCHANGED <<method, tuning, producersDone, pushed, taken>>

\* The locked part of pop, entered anew after a wait: _reverse_transfer, wait, or the end.
pop(c) ==
    /\ pc[c] = "pop" /\ inner[c] = <<>>
    /\ \/ LET most == IF Len(buffer) < Taken THEN Len(buffer) ELSE Taken IN
          /\ buffer # <<>>
          /\ inner' = [inner EXCEPT ![c] = SubSeq(buffer, 1, most)]
          /\ buffer' = SubSeq(buffer, most + 1, Len(buffer))
          /\ UNCHANGED pc
       \/ /\ buffer = <<>>
          /\ pc' = [pc EXCEPT ![c] = IF terminated THEN "done" ELSE "wait"]
          /\ UNCHANGED <<buffer, inner>>
    /\ UNCHANGED <<method, tuning, producersDone, pushed, taken>>

\* The part of pop that needs no lock
Give(c) == /\ pc[c] = "pop" /\ inner[c] # <<>>
           /\ taken' = [taken EXCEPT ![c] = Append(@, Head(inner[c]))]
           /\ inner' = [inner EXCEPT ![c] = Tail(@)]
           /\ UNCHANGED <<method, buffer, tuning, producersDone, pc, pushed>>

Produce(p) == push(p) \/ push_immediate(p) \/ transfer(p) \/ terminate(p)
Consume(c) == pop(c) \/ Give(c)

Next == \/ \E p \in Producers : Produce(p)
        \/ \E c \in Consumers : Consume(c)

Spec == Init /\ [][Next]_vars

\* The scheduler runs every thread that is not waiting.
FairSpec == /\ Spec
            /\ \A p \in Producers : WF_vars(Produce(p))
            /\ \A c \in Consumers : WF_vars(Consume(c))
--------------------------------------------------------------------------------
TypeOK == /\ method \in Methods
          /\ buffer \in Seq(Item) /\ inner \in [Producers \cup Consumers -> Seq(Item)]
          /\ n \in [Producers -> Nat \ {0}] /\ exact \in [Producers -> Nat]
          /\ phase \in [Producers -> {"heating", "running"}]
          /\ noWork \in [Producers -> Nat] /\ withWork \in [Producers -> Nat]
          /\ events \in Seq({"empty", "low", "content", "immediate"}) /\ Len(events) <= HistorySize
          /\ producersDone \in 0..Cardinality(Producers)
          /\ pc \in [Producers \cup Consumers -> {"push", "terminate", "pop", "wait", "done"}]
          /\ pushed \in [Producers -> 0..N]
          /\ taken \in [Consumers -> Seq(Item)]

\* _transfer notifies one consumer, however many elements it moves and consumers wait: as long
\* as something is left, or all producers are done, a consumer is awake and will come for it.
SomebodyComes ==
    /\ buffer # <<>> /\ Sleepers # {} => \E c \in Consumers : pc[c] = "pop"
    /\ terminated => Sleepers = {}

Elements(s) == {s[i] : i \in DOMAIN s}

Abstract == INSTANCE Channel WITH
    sent     <- pushed,
    pool     <- Elements(buffer) \cup UNION {Elements(inner[p]) : p \in Producers},
    claimed  <- [c \in Consumers |-> inner[c]],
    received <- taken,
    closed   <- {p \in Producers : pc[p] = "done"},
    ended    <- {c \in Consumers : pc[c] = "done"}
\* Batches of changing sizes, a push that overtakes nobody and consumers that take a part of
\* what is there lose, duplicate and reorder nothing, and the end is told when all is taken.
ImplementsChannel == Abstract!Spec

\* Every producer and every consumer returns, whatever the quantities become.
EveryThreadReturns == <>(\A t \in Producers \cup Consumers : pc[t] = "done")
================================================================================
