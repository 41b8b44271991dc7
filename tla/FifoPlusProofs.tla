----------------------------- MODULE FifoPlusProofs -----------------------------
(***************************************************************************)
(* For any number of producers and consumers, any loads, limits and        *)
(* multipliers: the quantities stay positive whatever the reconfigurations *)
(* make of them, the single notification of _transfer is enough, and the   *)
(* queue implements Channel.                                               *)
(***************************************************************************)
EXTENDS FifoPlus, TLAPS, SequenceTheorems, FiniteSetTheorems

(***************************************************************************)
(* The inductive invariant.  The quantity of a producer is positive        *)
(* because its exact value is at least one hundredth times 100; the        *)
(* counter is the number of producers that have terminated.                *)
(***************************************************************************)
Gone == {p \in Producers : pc[p] = "done"}

Exact == \A p \in Producers : exact[p] >= 100
Counted == producersDone = Cardinality(Gone)

Inv == TypeOK /\ Exact /\ Counted /\ SomebodyComes

Threads == Producers \cup Consumers
Positions == {"push", "terminate", "pop", "wait", "done"}

LEMMA CountGone ==
    /\ Cardinality(Producers) \in Nat
    /\ IsFiniteSet(Gone)
    /\ Cardinality(Gone) \in 0..Cardinality(Producers)
<1>1. Gone \in SUBSET Producers
  BY DEF Gone
<1>. QED BY <1>1, FS_Subset, FS_CardinalityType, FifoAssumption

---------------------------------------------------------------------------------
(* The arithmetic of the reconfigurations *)

LEMMA Divide ==
    ASSUME NEW a \in Nat, NEW d \in Nat \ {0}
    PROVE  a \div d \in Nat /\ (a >= d => a \div d >= 1)
  BY SMT

LEMMA Scale ==
    ASSUME NEW m \in Nat \ {0}, NEW f \in Nat, NEW d \in Nat \ {0}, f >= d
    PROVE  m * f \in Nat /\ m * f >= d
  BY SMT

\* A raise by a factor of at least 1 keeps what it raises positive.
LEMMA Raise ==
    ASSUME NEW m \in Nat \ {0}, NEW f \in Nat, NEW d \in Nat \ {0}, f >= d
    PROVE  (m * f) \div d \in Nat \ {0}
<1>1. m * f \in Nat /\ m * f >= d
  BY Scale
<1>. QED BY <1>1, Divide

LEMMA Product ==
    ASSUME NEW a \in Nat, NEW f \in Nat, a >= 100, f >= 100
    PROVE  a * f \in Nat /\ a * f >= 100 * 100
<1>1. a * f >= a * 100
  BY SMT
<1>. QED BY <1>1, SMT

LEMMA Reduce ==
    ASSUME NEW m \in Nat, NEW f \in Nat, NEW d \in Nat \ {0}
    PROVE  AtLeastOne((m * f) \div d) \in Nat \ {0}
<1>1. m * f \in Nat
  OBVIOUS
<1>2. (m * f) \div d \in Nat
  BY <1>1, Divide
<1>. QED BY <1>2 DEF AtLeastOne

\* Whatever the gradient, both reconfigurations return a positive quantity.
LEMMA GradientPositive ==
    ASSUME NEW m \in Nat \ {0}
    PROVE  /\ \A g \in {"coherent", "fluctuating", "incoherent"} : GradientWork(m, g) \in Nat \ {0}
           /\ \A g \in {"coherent", "fluctuating"} : GradientNoWork(m, g) \in Nat \ {0}
<1>. DEFINE raised == (m * Increase) \div 100
            lowered == (m * (500 - Decrease)) \div 400
            reversed == (m * (300 - Decrease)) \div 200
            refilled == (m * (100 + 3 * Increase)) \div 400
            drained == (m * Decrease) \div 100
<1>1. raised \in Nat \ {0} /\ refilled \in Nat \ {0}
  <2>1. Increase \in Nat /\ Increase >= 100 /\ 100 + 3 * Increase \in Nat /\ 100 + 3 * Increase >= 400
    BY FifoAssumption
  <2>. QED BY <2>1, Raise
<1>2. /\ AtLeastOne(lowered) \in Nat \ {0}
      /\ AtLeastOne(reversed) \in Nat \ {0}
      /\ AtLeastOne(drained) \in Nat \ {0}
  <2>1. Decrease \in Nat /\ 500 - Decrease \in Nat /\ 300 - Decrease \in Nat
    BY FifoAssumption
  <2>. QED BY <2>1, Reduce
<1>. HIDE DEF raised, lowered, reversed, refilled, drained
<1>3. \A g \in {"coherent", "fluctuating", "incoherent"} : GradientWork(m, g) \in Nat \ {0}
  BY <1>1, <1>2 DEF GradientWork, raised, lowered, reversed
<1>4. \A g \in {"coherent", "fluctuating"} : GradientNoWork(m, g) \in Nat \ {0}
  BY <1>1, <1>2 DEF GradientNoWork, refilled, drained
<1>. QED BY <1>3, <1>4

---------------------------------------------------------------------------------
(* The parts of a push *)

Events == {"empty", "low", "content", "immediate"}

LEMMA RememberType ==
    ASSUME TypeOK, NEW e \in Events
    PROVE  Remember(e) \in Seq(Events) /\ Len(Remember(e)) <= HistorySize
<1>. DEFINE longer == <<e>> \o events
            most == IF Len(longer) > HistorySize THEN HistorySize ELSE Len(longer)
<1>1. longer \in Seq(Events) /\ Len(longer) \in Nat
  BY ConcatProperties, LenProperties DEF TypeOK, Events
<1>2. most \in 0..Len(longer) /\ most <= HistorySize
  BY <1>1, FifoAssumption
<1>3. \A i \in 1..most : longer[i] \in Events
  BY <1>1, <1>2, ElementOfSeq
<1>4. SubSeq(longer, 1, most) \in Seq(Events) /\ Len(SubSeq(longer, 1, most)) = most
  BY <1>1, <1>2, <1>3, SubSeqProperties
<1>. QED BY <1>2, <1>4 DEF Remember

LEMMA MetType == Met \in {"empty", "low", "content"}
  BY DEF Met

\* Either reconfiguration of p leaves the types and positive quantities.
LEMMA ReconfigureTypes ==
    ASSUME Inv, NEW p \in Producers,
           \/ _reconfigure_producer_gradient(p)
           \/ _reconfigure_phase(p)
    PROVE  /\ n' \in [Producers -> Nat \ {0}]
           /\ exact' \in [Producers -> Nat] /\ Exact'
           /\ phase' \in [Producers -> {"heating", "running"}]
           /\ noWork' \in [Producers -> Nat] /\ withWork' \in [Producers -> Nat]
<1>. USE DEF Inv, TypeOK, Exact
<1>1. CASE _reconfigure_producer_gradient(p)
  <2>. DEFINE reason == IF Met = "empty" THEN "no work" ELSE "work"
              gradient == _producer_gradient(reason, events')
  <2>1. /\ gradient \in {"coherent", "fluctuating", "incoherent"}
        /\ reason = "no work" => gradient \in {"coherent", "fluctuating"}
    BY DEF _producer_gradient
  <2>. HIDE DEF gradient
  <2>2. /\ reason = "work" => GradientWork(n[p], gradient) \in Nat \ {0}
        /\ reason # "work" => GradientNoWork(n[p], gradient) \in Nat \ {0}
    BY <2>1, GradientPositive
  <2>3. n' \in [Producers -> Nat \ {0}]
    BY <1>1, <2>2 DEF _reconfigure_producer_gradient, gradient
  <2>4. noWork' \in [Producers -> Nat] /\ withWork' \in [Producers -> Nat]
    <3>. DEFINE worked == IF reason = "work" THEN withWork[p] + 1 ELSE 0
                idle == IF reason = "work" THEN 0 ELSE noWork[p] + 1
                reset == (worked >= WithWork \/ idle >= NoWork) /\ gradient = "coherent"
    <3>1. worked \in Nat /\ idle \in Nat
      OBVIOUS
    <3>2. /\ withWork' = [withWork EXCEPT ![p] = IF reset THEN 0 ELSE worked]
          /\ noWork' = [noWork EXCEPT ![p] = IF reset THEN 0 ELSE idle]
      BY <1>1 DEF _reconfigure_producer_gradient, gradient
    <3>. HIDE DEF worked, idle, reset
    <3>. QED BY <3>1, <3>2
  <2>5. UNCHANGED <<exact, phase>>
    BY <1>1 DEF _reconfigure_producer_gradient
  <2>. QED BY <2>3, <2>4, <2>5
<1>2. CASE _reconfigure_phase(p)
  <2>. DEFINE hotter == (exact[p] * Increase) \div 100
              full == hotter > 100 * Largest
              heated == IF full THEN 100 * Largest ELSE hotter
  <2>1. hotter \in Nat /\ hotter >= 100
    <3>1. exact[p] \in Nat /\ exact[p] >= 100 /\ Increase \in Nat /\ Increase >= 100
      BY FifoAssumption
    <3>2. exact[p] * Increase \in Nat /\ exact[p] * Increase >= 100 * 100
      BY <3>1, Product
    <3>3. \A a \in Nat : a >= 100 * 100 => a \div 100 \in Nat /\ a \div 100 >= 100
      BY SMT
    <3>. QED BY <3>2, <3>3
  <2>. HIDE DEF hotter
  <2>2. heated \in Nat /\ heated >= 100 /\ heated \div 100 \in Nat \ {0}
    <3>1. Largest \in Nat /\ 100 * Largest \in Nat /\ 100 * Largest >= 100
      <4>1. Largest \in Nat \ {0}
        BY FifoAssumption
      <4>. HIDE DEF Inv, TypeOK, Exact
      <4>. QED BY <4>1
    <3>2. heated \in Nat /\ heated >= 100
      BY <2>1, <3>1
    <3>. HIDE DEF heated
    <3>. QED BY <3>2, Divide
  <2>. HIDE DEF heated
  <2>3. CASE phase[p] = "heating"
    <3>1. exact' = [exact EXCEPT ![p] = heated]
      BY <1>2, <2>3 DEF _reconfigure_phase, heated, hotter
    <3>2. n' = [n EXCEPT ![p] = heated \div 100]
      BY <1>2, <2>3, <3>1 DEF _reconfigure_phase
    <3>3. phase' \in [Producers -> {"heating", "running"}]
      BY <1>2, <2>3 DEF _reconfigure_phase
    <3>. QED BY <1>2, <2>2, <3>1, <3>2, <3>3 DEF _reconfigure_phase
  <2>4. CASE phase[p] # "heating"
    BY <1>2, <2>4 DEF _reconfigure_phase
  <2>. QED BY <2>3, <2>4
<1>. QED BY <1>1, <1>2

LEMMA SleepersAreConsumers == Sleepers \subseteq Consumers /\ Producers \cap Sleepers = {}
  BY FifoAssumption DEF Sleepers

\* What _transfer does when p goes from one position to another that is not the end.
LEMMA TransferInv ==
    ASSUME Inv, NEW p \in Producers, NEW elements \in Seq(Item),
           NEW position \in {"push", "terminate"}, pc[p] = "push",
           _transfer(p, elements, [pc EXCEPT ![p] = position]),
           UNCHANGED producersDone
    PROVE  /\ buffer' \in Seq(Item) /\ inner' \in [Threads -> Seq(Item)]
           /\ pc' \in [Threads -> Positions]
           /\ Counted' /\ SomebodyComes'
<1>. USE DEF Inv, TypeOK, Threads, Positions
<1>. DEFINE counter == [pc EXCEPT ![p] = position]
<1>1. buffer' \in Seq(Item) /\ inner' \in [Threads -> Seq(Item)]
  BY EmptySeq, ConcatProperties DEF _transfer
<1>. DEFINE Wakes(w) == pc' = [t \in Threads |-> IF t \in w THEN "pop" ELSE counter[t]]
<1>2. \E woken \in SUBSET Sleepers :
          Wakes(woken) /\ (elements # <<>> /\ Sleepers # {} => woken # {})
  <2>1. counter \in [Threads -> Positions]
    OBVIOUS
  <2>2. counter = [t \in Threads |-> IF t \in {} THEN "pop" ELSE counter[t]]
    BY <2>1
  <2>3. CASE elements = <<>> \/ Sleepers = {}
    <3>1. pc' = counter
      BY <2>3 DEF _transfer, WakeOne
    <3>2. Wakes({})
      BY <2>2, <3>1
    <3>. HIDE DEF Wakes
    <3>. QED BY <2>3, <3>2
  <2>4. CASE elements # <<>> /\ Sleepers # {}
    <3>1. PICK c \in Sleepers : pc' = [counter EXCEPT ![c] = "pop"]
      BY <2>4 DEF _transfer, WakeOne
    <3>2. c \in Threads
      BY SleepersAreConsumers
    <3>3. Wakes({c})
      BY <2>1, <3>1, <3>2
    <3>. HIDE DEF Wakes
    <3>. QED BY <3>3
  <2>. HIDE DEF Wakes
  <2>. QED BY <2>3, <2>4
<1>. HIDE DEF counter
<1>. PICK woken \in SUBSET Sleepers :
         Wakes(woken) /\ (elements # <<>> /\ Sleepers # {} => woken # {})
  BY <1>2
<1>3. /\ pc' \in [Threads -> Positions]
      /\ \A q \in Producers : pc'[q] = "done" <=> pc[q] = "done"
      /\ \A c \in Consumers : pc'[c] = IF c \in woken THEN "pop" ELSE pc[c]
  <2>1. \A t \in woken : t \in Consumers /\ t \notin Producers
    BY SleepersAreConsumers
  <2>2. /\ counter \in [Threads -> Positions]
        /\ \A q \in Producers : counter[q] = "done" <=> pc[q] = "done"
        /\ \A c \in Consumers : counter[c] = pc[c]
    BY FifoAssumption DEF counter
  <2>3. \A t \in Threads : pc'[t] = IF t \in woken THEN "pop" ELSE counter[t]
    OBVIOUS
  <2>4. pc' \in [Threads -> Positions]
    BY <2>2
  <2>. QED BY <2>1, <2>2, <2>3, <2>4
<1>4. Gone' = Gone /\ Sleepers' = Sleepers \ woken
  BY <1>3, SleepersAreConsumers DEF Gone, Sleepers
<1>5. Counted'
  BY <1>4 DEF Counted
<1>6. SomebodyComes'
  <2>1. (terminated => Sleepers = {})'
    BY <1>4 DEF SomebodyComes, terminated
  <2>2. ASSUME buffer' # <<>>, Sleepers' # {} PROVE \E c \in Consumers : pc'[c] = "pop"
    <3>1. CASE elements = <<>>
      <4>1. buffer' = buffer
        BY <3>1, ConcatProperties, ConcatEmptySeq DEF _transfer
      <4>2. PICK c \in Consumers : pc[c] = "pop"
        BY <1>4, <2>2, <4>1 DEF SomebodyComes
      <4>. QED BY <1>3, <4>2
    <3>2. CASE elements # <<>>
      <4>1. PICK c \in woken : TRUE
        BY <1>2, <1>4, <2>2, <3>2
      <4>. QED BY <1>3, <4>1, SleepersAreConsumers
    <3>. QED BY <3>1, <3>2
  <2>. QED BY <2>1, <2>2 DEF SomebodyComes
<1>. QED BY <1>1, <1>3, <1>5, <1>6

---------------------------------------------------------------------------------
LEMMA InitInv == Init => Inv
<1> SUFFICES ASSUME Init PROVE Inv
  OBVIOUS
<1>. USE FifoAssumption DEF Init
<1>1. TypeOK
  BY EmptySeq, CountGone DEF TypeOK
<1>2. Exact
  BY DEF Exact
<1>3. Counted
  <2>1. Gone = {}
    BY DEF Gone
  <2>. QED BY <2>1, FS_EmptySet DEF Counted
<1>4. SomebodyComes
  BY DEF SomebodyComes, Sleepers
<1>. QED BY <1>1, <1>2, <1>3, <1>4 DEF Inv

\* The pushed item at the end of what p holds
LEMMA HeldType ==
    ASSUME Inv, NEW p \in Producers, CountPush(p)
    PROVE  /\ Held(p) \in Seq(Item)
           /\ pushed' \in [Producers -> 0..N]
<1>1. pushed[p] \in 0..N /\ pushed[p] + 1 \in 1..N
  <2>1. N \in Nat /\ Share[p] \in 0..N
    BY FifoAssumption
  <2>2. pushed[p] \in 0..N /\ pushed[p] < Share[p]
    BY DEF Inv, TypeOK, CountPush
  <2>. QED BY <2>1, <2>2
<1>2. <<p, pushed[p] + 1>> \in Item
  BY <1>1 DEF Item
<1>3. Held(p) \in Seq(Item)
  BY <1>2, AppendProperties DEF Held, Inv, TypeOK
<1>. QED BY <1>1, <1>3 DEF CountPush, Inv, TypeOK

LEMMA PushInv ==
    ASSUME Inv, NEW p \in Producers, push(p)
    PROVE  Inv'
<1>1. CountPush(p) /\ Held(p) \in Seq(Item) /\ pushed' \in [Producers -> 0..N]
  BY HeldType DEF push
<1>2. CASE Len(Held(p)) < n[p] /\ inner' = [inner EXCEPT ![p] = Held(p)]
           /\ UNCHANGED <<buffer, tuning, pc>>
  <2>1. TypeOK'
    BY <1>1, <1>2 DEF Inv, TypeOK, CountPush, tuning
  <2>2. Exact' /\ Counted'
    BY <1>1, <1>2 DEF Inv, Exact, Counted, Gone, tuning, CountPush
  <2>3. SomebodyComes'
    BY <1>1, <1>2 DEF Inv, SomebodyComes, Sleepers, terminated, CountPush
  <2>. QED BY <2>1, <2>2, <2>3 DEF Inv
<1>3. CASE /\ Observe
           /\ \/ _reconfigure_producer_gradient(p)
              \/ _reconfigure_phase(p)
           /\ _transfer(p, Held(p), pc)
  <2>1. events' \in Seq(Events) /\ Len(events') <= HistorySize
    BY <1>3, MetType, RememberType DEF Observe, Inv, Events
  <2>2. pc[p] = "push" /\ pc = [pc EXCEPT ![p] = "push"] /\ UNCHANGED producersDone
    BY <1>1 DEF CountPush, Inv, TypeOK
  <2>3. _transfer(p, Held(p), [pc EXCEPT ![p] = "push"])
    BY <1>3, <2>2
  <2>4. /\ buffer' \in Seq(Item) /\ inner' \in [Threads -> Seq(Item)]
        /\ pc' \in [Threads -> Positions]
        /\ Counted' /\ SomebodyComes'
    BY <1>1, <2>2, <2>3, TransferInv
  <2>5. /\ n' \in [Producers -> Nat \ {0}]
        /\ exact' \in [Producers -> Nat] /\ Exact'
        /\ phase' \in [Producers -> {"heating", "running"}]
        /\ noWork' \in [Producers -> Nat] /\ withWork' \in [Producers -> Nat]
    BY <1>3, ReconfigureTypes
  <2>6. TypeOK'
    BY <1>1, <2>1, <2>4, <2>5 DEF Inv, TypeOK, CountPush, Threads, Positions, Events
  <2>. QED BY <2>4, <2>5, <2>6 DEF Inv
<1>. QED BY <1>2, <1>3 DEF push

LEMMA PushImmediateInv ==
    ASSUME Inv, NEW p \in Producers, push_immediate(p)
    PROVE  Inv'
<1>1. CountPush(p) /\ Held(p) \in Seq(Item) /\ pushed' \in [Producers -> 0..N]
  BY HeldType DEF push_immediate
<1>2. events' \in Seq(Events) /\ Len(events') <= HistorySize
  BY RememberType DEF push_immediate, Inv, Events
<1>3. pc[p] = "push" /\ pc = [pc EXCEPT ![p] = "push"] /\ UNCHANGED producersDone
  BY <1>1 DEF CountPush, Inv, TypeOK
<1>4. _transfer(p, Held(p), [pc EXCEPT ![p] = "push"])
  BY <1>3 DEF push_immediate
<1>5. /\ buffer' \in Seq(Item) /\ inner' \in [Threads -> Seq(Item)]
      /\ pc' \in [Threads -> Positions]
      /\ Counted' /\ SomebodyComes'
  BY <1>1, <1>3, <1>4, TransferInv
<1>6. TypeOK'
  BY <1>1, <1>2, <1>5 DEF push_immediate, Inv, TypeOK, CountPush, Threads, Positions, Events
<1>7. Exact'
  BY DEF push_immediate, Inv, Exact
<1>. QED BY <1>5, <1>6, <1>7 DEF Inv

LEMMA TransferStepInv ==
    ASSUME Inv, NEW p \in Producers, transfer(p)
    PROVE  Inv'
<1>1. inner[p] \in Seq(Item) /\ pc[p] = "push" /\ UNCHANGED producersDone
  BY DEF transfer, Inv, TypeOK
<1>2. /\ buffer' \in Seq(Item) /\ inner' \in [Threads -> Seq(Item)]
      /\ pc' \in [Threads -> Positions]
      /\ Counted' /\ SomebodyComes'
  BY <1>1, TransferInv DEF transfer
<1>3. TypeOK'
  BY <1>2 DEF transfer, Inv, TypeOK, tuning, Threads, Positions
<1>4. Exact'
  BY DEF transfer, Inv, Exact, tuning
<1>. QED BY <1>2, <1>3, <1>4 DEF Inv

LEMMA TerminateInv ==
    ASSUME Inv, NEW p \in Producers, terminate(p)
    PROVE  Inv'
<1>. USE DEF terminate, Inv, TypeOK
<1>1. p \notin Gone /\ p \notin Sleepers
  BY SleepersAreConsumers DEF Gone
<1>2. Gone' = Gone \cup {p}
  BY <1>1, SleepersAreConsumers DEF Gone
<1>3. Counted' /\ producersDone' \in 0..Cardinality(Producers)
  <2>1. Cardinality(Gone') = Cardinality(Gone) + 1
    BY <1>1, <1>2, CountGone, FS_AddElement
  <2>2. Gone' \in SUBSET Producers
    BY DEF Gone
  <2>3. Cardinality(Gone') \in Nat /\ Cardinality(Gone') <= Cardinality(Producers)
    BY <2>2, FS_Subset, FS_CardinalityType, FifoAssumption
  <2>. QED BY <2>1, <2>3, CountGone DEF Counted
<1>4. TypeOK'
  BY <1>3 DEF tuning
<1>5. \A c \in Consumers :
          pc'[c] = IF c \in Sleepers /\ producersDone' = Cardinality(Producers) THEN "pop" ELSE pc[c]
  BY FifoAssumption
<1>6. SomebodyComes'
  BY <1>5 DEF SomebodyComes, Sleepers, terminated
<1>7. Exact'
  BY DEF Exact, tuning
<1>. QED BY <1>3, <1>4, <1>6, <1>7

LEMMA PopInv ==
    ASSUME Inv, NEW c \in Consumers, pop(c)
    PROVE  Inv'
<1>. DEFINE most == IF Len(buffer) < Taken THEN Len(buffer) ELSE Taken
<1>1. CASE /\ buffer # <<>>
           /\ inner' = [inner EXCEPT ![c] = SubSeq(buffer, 1, most)]
           /\ buffer' = SubSeq(buffer, most + 1, Len(buffer))
           /\ UNCHANGED pc
  <2>1. buffer \in Seq(Item) /\ Len(buffer) \in Nat /\ most \in 0..Len(buffer)
    BY LenProperties, FifoAssumption DEF Inv, TypeOK
  <2>. HIDE DEF most
  <2>2. SubSeq(buffer, 1, most) \in Seq(Item)
    <3>1. \A i \in 1..most : buffer[i] \in Item
      BY <2>1, ElementOfSeq
    <3>. QED BY <2>1, <3>1, SubSeqProperties
  <2>3. SubSeq(buffer, most + 1, Len(buffer)) \in Seq(Item)
    <3>1. \A i \in most + 1..Len(buffer) : buffer[i] \in Item
      BY <2>1, ElementOfSeq
    <3>. QED BY <2>1, <3>1, SubSeqProperties
  <2>4. TypeOK'
    BY <1>1, <2>2, <2>3 DEF pop, Inv, TypeOK, tuning
  <2>5. SomebodyComes'
    BY <1>1 DEF pop, Inv, SomebodyComes, Sleepers, terminated
  <2>6. Exact' /\ Counted'
    BY <1>1 DEF pop, Inv, Exact, Counted, Gone, tuning
  <2>. QED BY <2>4, <2>5, <2>6 DEF Inv
<1>2. CASE /\ buffer = <<>>
           /\ pc' = [pc EXCEPT ![c] = IF terminated THEN "done" ELSE "wait"]
           /\ UNCHANGED <<buffer, inner>>
  <2>1. TypeOK'
    BY <1>2 DEF pop, Inv, TypeOK, tuning
  <2>2. Sleepers' = IF terminated THEN Sleepers ELSE Sleepers \cup {c}
    BY <1>2 DEF pop, Inv, TypeOK, Sleepers
  <2>3. SomebodyComes'
    BY <1>2, <2>2 DEF pop, Inv, SomebodyComes, terminated
  <2>4. Gone' = Gone
    BY <1>2, FifoAssumption DEF Gone, Inv, TypeOK
  <2>5. Exact' /\ Counted'
    BY <2>4 DEF pop, Inv, Exact, Counted, tuning
  <2>. QED BY <2>1, <2>3, <2>5 DEF Inv
<1>. QED BY <1>1, <1>2 DEF pop

LEMMA GiveInv ==
    ASSUME Inv, NEW c \in Consumers, Give(c)
    PROVE  Inv'
<1>1. inner[c] \in Seq(Item) /\ inner[c] # <<>> /\ taken[c] \in Seq(Item)
  BY DEF Give, Inv, TypeOK
<1>2. Head(inner[c]) \in Item /\ Tail(inner[c]) \in Seq(Item)
  BY <1>1, HeadTailProperties
<1>3. Append(taken[c], Head(inner[c])) \in Seq(Item)
  BY <1>1, <1>2, AppendProperties
<1>4. TypeOK'
  BY <1>2, <1>3 DEF Give, Inv, TypeOK, tuning
<1>5. Exact' /\ Counted' /\ SomebodyComes'
  BY DEF Give, Inv, Exact, Counted, Gone, SomebodyComes, Sleepers, terminated, tuning
<1>. QED BY <1>4, <1>5 DEF Inv

LEMMA Inductive == Spec => []Inv
<1>1. Inv /\ [Next]_vars => Inv'
  <2>1. ASSUME Inv, NEW p \in Producers, Produce(p) PROVE Inv'
    BY <2>1, PushInv, PushImmediateInv, TransferStepInv, TerminateInv DEF Produce
  <2>2. ASSUME Inv, NEW c \in Consumers, Consume(c) PROVE Inv'
    BY <2>2, PopInv, GiveInv DEF Consume
  <2>3. Inv /\ UNCHANGED vars => Inv'
    BY DEF vars, tuning, Inv, TypeOK, Exact, Counted, Gone, SomebodyComes, Sleepers, terminated
  <2>. QED BY <2>1, <2>2, <2>3 DEF Next
<1>. QED BY <1>1, InitInv, PTL DEF Spec

\* Types; above all a batch never becomes empty: reconfigured by GRADIENT or by PHASE, _n stays
\* positive for all multipliers that raise and lower it (fifo_plus.tpp 229-323 and 405-458).
THEOREM TypeCorrect == Spec => []TypeOK
<1>1. Inv => TypeOK
  BY DEF Inv
<1>. QED BY <1>1, Inductive, PTL

\* _transfer notifies one waiting consumer whatever it moves (fifo_plus.tpp 195-211): with any
\* number of consumers, one is awake as long as something is left, and the last terminate
\* leaves nobody asleep.
THEOREM SomebodyAlwaysComes == Spec => []SomebodyComes
<1>1. Inv => SomebodyComes
  BY DEF Inv
<1>. QED BY <1>1, Inductive, PTL
---------------------------------------------------------------------------------
(***************************************************************************)
(* What the refinement needs beside Inv: the items of a producer stand in  *)
(* _buffer in the order they were pushed, before the ones it still holds,  *)
(* none newer than its last push; and a producer that has transferred, or  *)
(* a consumer that waits or was told the end, holds nothing.               *)
(***************************************************************************)
Ascending(s) == \A i, j \in DOMAIN s : i < j /\ s[i][1] = s[j][1] => s[i][2] < s[j][2]
Precedes(s, t) == \A i \in DOMAIN s, j \in DOMAIN t : s[i][1] = t[j][1] => s[i][2] < t[j][2]

InOrder ==
    /\ Ascending(buffer)
    /\ \A i \in DOMAIN buffer : buffer[i][2] <= pushed[buffer[i][1]]
    /\ \A p \in Producers :
        /\ Ascending(inner[p])
        /\ Precedes(buffer, inner[p])
        /\ \A i \in DOMAIN inner[p] : inner[p][i][1] = p /\ inner[p][i][2] <= pushed[p]

Emptied ==
    /\ \A p \in Producers : /\ pc[p] \in {"push", "terminate", "done"}
                            /\ pc[p] # "push" => inner[p] = <<>>
    /\ \A c \in Consumers : /\ pc[c] \in {"pop", "wait", "done"}
                            /\ pc[c] # "pop" => inner[c] = <<>>

Front(m, s) == SubSeq(s, 1, m)
Rest(m, s) == SubSeq(s, m + 1, Len(s))

LEMMA SplitType ==
    ASSUME NEW s \in Seq(Item), NEW m \in 0..Len(s)
    PROVE  /\ Front(m, s) \in Seq(Item) /\ Len(Front(m, s)) = m
           /\ Rest(m, s) \in Seq(Item)  /\ Len(Rest(m, s)) = Len(s) - m
<1>1. Len(s) \in Nat /\ \A i \in 1..Len(s) : s[i] \in Item
  BY LenProperties, ElementOfSeq
<1>2. /\ Front(m, s) \in Seq(Item)
      /\ Len(Front(m, s)) = IF 1 <= m THEN m - 1 + 1 ELSE 0
  <2>1. \A i \in 1..m : s[i] \in Item
    BY <1>1
  <2>. QED BY <1>1, <2>1, SubSeqProperties, m \in Int DEF Front
<1>3. /\ Rest(m, s) \in Seq(Item)
      /\ Len(Rest(m, s)) = IF m + 1 <= Len(s) THEN Len(s) - (m + 1) + 1 ELSE 0
  <2>1. \A i \in m+1..Len(s) : s[i] \in Item
    BY <1>1
  <2>. QED BY <1>1, <2>1, SubSeqProperties, m + 1 \in Int, Len(s) \in Int DEF Rest
<1>. QED BY <1>1, <1>2, <1>3

\* Splitting an ordered buffer after m elements.
LEMMA SplitOrder ==
    ASSUME NEW s \in Seq(Item), NEW m \in 0..Len(s), Ascending(s)
    PROVE  /\ Ascending(Front(m, s)) /\ Ascending(Rest(m, s))
           /\ Precedes(Front(m, s), Rest(m, s))
           /\ Elements(s) = Elements(Front(m, s)) \cup Elements(Rest(m, s))
           /\ DOMAIN Front(m, s) = 1..m /\ DOMAIN Rest(m, s) = 1..(Len(s) - m)
           /\ DOMAIN s = 1..Len(s) /\ Len(s) \in Nat
           /\ \A i \in 1..m : Front(m, s)[i] = s[i]
           /\ \A i \in 1..(Len(s) - m) : Rest(m, s)[i] = s[m + i]
<1>1. Len(s) \in Nat /\ DOMAIN s = 1..Len(s) /\ \A i \in 1..Len(s) : s[i] \in Item
  BY LenProperties, ElementOfSeq
<1>2. /\ DOMAIN Front(m, s) = 1..m
      /\ DOMAIN Rest(m, s) = 1..(Len(s) - m)
  <2>1. /\ Front(m, s) \in Seq(Item) /\ Len(Front(m, s)) = m
        /\ Rest(m, s) \in Seq(Item) /\ Len(Rest(m, s)) = Len(s) - m
    BY SplitType
  <2>. QED BY <2>1, LenProperties
<1>3. \A i \in 1..m : Front(m, s)[i] = s[i]
  <2>1. \A i \in 1..m : s[i] \in Item
    BY <1>1
  <2>2. \A i \in 1..m - 1 + 1 : SubSeq(s, 1, m)[i] = s[1 + i - 1]
    BY <1>1, <2>1, SubSeqProperties, m \in Int
  <2>. QED BY <1>1, <2>2 DEF Front
<1>4. \A i \in 1..(Len(s) - m) : Rest(m, s)[i] = s[m + i]
  <2>1. \A i \in m+1..Len(s) : s[i] \in Item
    BY <1>1
  <2>2. \A i \in 1..Len(s) - (m + 1) + 1 : SubSeq(s, m + 1, Len(s))[i] = s[m + 1 + i - 1]
    BY <1>1, <2>1, SubSeqProperties, m + 1 \in Int, Len(s) \in Int
  <2>. QED BY <1>1, <2>2 DEF Rest
<1>5. Ascending(Front(m, s))
  BY <1>1, <1>2, <1>3 DEF Ascending
<1>6. Ascending(Rest(m, s))
  <2>1. ASSUME NEW i \in 1..(Len(s) - m), NEW j \in 1..(Len(s) - m),
               i < j, Rest(m, s)[i][1] = Rest(m, s)[j][1]
        PROVE  Rest(m, s)[i][2] < Rest(m, s)[j][2]
    <3>1. m + i \in 1..Len(s) /\ m + j \in 1..Len(s) /\ m + i < m + j
      BY <1>1, <2>1
    <3>2. Rest(m, s)[i] = s[m + i] /\ Rest(m, s)[j] = s[m + j]
      BY <1>4
    <3>. QED BY <1>1, <2>1, <3>1, <3>2 DEF Ascending
  <2>. QED BY <1>2, <2>1 DEF Ascending
<1>7. Precedes(Front(m, s), Rest(m, s))
  <2>1. ASSUME NEW i \in 1..m, NEW j \in 1..(Len(s) - m), Front(m, s)[i][1] = Rest(m, s)[j][1]
        PROVE  Front(m, s)[i][2] < Rest(m, s)[j][2]
    <3>1. i \in 1..Len(s) /\ m + j \in 1..Len(s) /\ i < m + j
      BY <1>1
    <3>2. Front(m, s)[i] = s[i] /\ Rest(m, s)[j] = s[m + j]
      BY <1>3, <1>4
    <3>. QED BY <1>1, <2>1, <3>1, <3>2 DEF Ascending
  <2>. QED BY <1>2, <2>1 DEF Precedes
<1>8. Elements(s) = Elements(Front(m, s)) \cup Elements(Rest(m, s))
  <2>1. ASSUME NEW i \in 1..Len(s)
        PROVE  s[i] \in Elements(Front(m, s)) \cup Elements(Rest(m, s))
    <3>1. CASE i \in 1..m
      BY <1>2, <1>3, <3>1 DEF Elements
    <3>2. CASE i \notin 1..m
      <4>1. i - m \in 1..(Len(s) - m) /\ m + (i - m) = i
        BY <1>1, <3>2
      <4>. QED BY <1>2, <1>4, <4>1 DEF Elements
    <3>. QED BY <3>1, <3>2
  <2>2. Elements(Front(m, s)) \subseteq Elements(s)
    BY <1>1, <1>2, <1>3 DEF Elements
  <2>3. ASSUME NEW j \in 1..(Len(s) - m) PROVE Rest(m, s)[j] \in Elements(s)
    <3>1. m + j \in 1..Len(s)
      BY <1>1
    <3>. QED BY <1>1, <1>4, <3>1 DEF Elements
  <2>. QED BY <1>1, <1>2, <2>1, <2>2, <2>3 DEF Elements
<1>. QED BY <1>1, <1>2, <1>3, <1>4, <1>5, <1>6, <1>7, <1>8

\* Appending one ordered sequence of items to another that precedes it.
LEMMA ConcatOrder ==
    ASSUME NEW s \in Seq(Item), NEW t \in Seq(Item),
           Ascending(s), Ascending(t), Precedes(s, t)
    PROVE  /\ Ascending(s \o t)
           /\ Elements(s \o t) = Elements(s) \cup Elements(t)
<1>1. /\ Len(s) \in Nat /\ DOMAIN s = 1..Len(s)
      /\ Len(t) \in Nat /\ DOMAIN t = 1..Len(t)
      /\ DOMAIN (s \o t) = 1..(Len(s) + Len(t))
      /\ \A i \in 1..(Len(s) + Len(t)) :
            (s \o t)[i] = IF i <= Len(s) THEN s[i] ELSE t[i - Len(s)]
  BY ConcatProperties, LenProperties
<1> DEFINE u == s \o t
<1> HIDE DEF u
<1>2. /\ DOMAIN u = 1..(Len(s) + Len(t))
      /\ \A i \in 1..Len(s) : u[i] = s[i]
      /\ \A i \in 1..(Len(s) + Len(t)) : i > Len(s) => u[i] = t[i - Len(s)] /\ i - Len(s) \in 1..Len(t)
      /\ \A i \in 1..Len(t) : u[Len(s) + i] = t[i] /\ Len(s) + i \in 1..(Len(s) + Len(t))
  BY <1>1 DEF u
<1>3. ASSUME NEW i \in DOMAIN u, NEW j \in DOMAIN u, i < j, u[i][1] = u[j][1]
      PROVE  u[i][2] < u[j][2]
  <2>1. CASE j <= Len(s)
    <3>1. i \in 1..Len(s) /\ j \in 1..Len(s)
      BY <1>1, <1>2, <1>3, <2>1
    <3>. QED BY <1>1, <1>2, <1>3, <3>1 DEF Ascending
  <2>2. CASE i > Len(s)
    <3>1. /\ u[i] = t[i - Len(s)] /\ i - Len(s) \in 1..Len(t)
          /\ u[j] = t[j - Len(s)] /\ j - Len(s) \in 1..Len(t)
          /\ i - Len(s) < j - Len(s)
      BY <1>1, <1>2, <1>3, <2>2
    <3>. QED BY <1>1, <1>3, <3>1 DEF Ascending
  <2>3. CASE i <= Len(s) /\ j > Len(s)
    <3>1. /\ u[i] = s[i] /\ i \in 1..Len(s)
          /\ u[j] = t[j - Len(s)] /\ j - Len(s) \in 1..Len(t)
      BY <1>1, <1>2, <1>3, <2>3
    <3>. QED BY <1>1, <1>3, <3>1 DEF Precedes
  <2>. QED BY <1>1, <1>2, <2>1, <2>2, <2>3
<1>4. Ascending(u)
  BY <1>3 DEF Ascending
<1>5. Elements(u) = Elements(s) \cup Elements(t)
  <2>1. Elements(u) \subseteq Elements(s) \cup Elements(t)
    <3>1. ASSUME NEW i \in 1..(Len(s) + Len(t)) PROVE u[i] \in Elements(s) \cup Elements(t)
      <4>1. CASE i <= Len(s)
        BY <1>1, <1>2, <4>1 DEF Elements
      <4>2. CASE i > Len(s)
        BY <1>1, <1>2, <4>2 DEF Elements
      <4>. QED BY <1>1, <4>1, <4>2
    <3>. QED BY <1>2, <3>1 DEF Elements
  <2>2. Elements(s) \subseteq Elements(u)
    <3>1. \A i \in 1..Len(s) : i \in 1..(Len(s) + Len(t))
      BY <1>1
    <3>. QED BY <1>1, <1>2, <3>1 DEF Elements
  <2>3. Elements(t) \subseteq Elements(u)
    BY <1>1, <1>2 DEF Elements
  <2>. QED BY <2>1, <2>2, <2>3
<1>. QED BY <1>4, <1>5 DEF u

\* A batch taken from the front of an ordered buffer is one a consumer of the channel may claim.
LEMMA ClaimableBatch ==
    ASSUME NEW s \in Seq(Item), NEW m \in 1..Len(s), Ascending(s),
           NEW others, \A i \in DOMAIN s, y \in others : s[i][1] = y[1] => s[i][2] < y[2],
           \A y \in others : y \in Item
    PROVE  LET batch == Elements(Front(m, s))
               unclaimed == Elements(s) \cup others
           IN  /\ batch # {} /\ batch \subseteq unclaimed
               /\ \A x \in batch, y \in unclaimed : Abstract!Older(y, x) => y \in batch
               /\ Elements(Rest(m, s)) \cup others = unclaimed \ batch
               /\ Front(m, s) \in Abstract!Arrangements(batch)
<1> DEFINE front == Front(m, s)
           rest == Rest(m, s)
           batch == Elements(front)
<1>1. /\ Ascending(front) /\ Ascending(rest) /\ Precedes(front, rest)
      /\ Elements(s) = Elements(front) \cup Elements(rest)
      /\ DOMAIN front = 1..m /\ DOMAIN rest = 1..(Len(s) - m)
      /\ DOMAIN s = 1..Len(s) /\ Len(s) \in Nat
      /\ \A i \in 1..m : front[i] = s[i]
      /\ \A i \in 1..(Len(s) - m) : rest[i] = s[m + i]
  <2>1. m \in 0..Len(s)
    OBVIOUS
  <2>. QED BY <2>1, SplitOrder
<1>2. \A i \in 1..Len(s) : s[i] \in Item /\ s[i][2] \in Nat
  BY <1>1, ElementOfSeq DEF Item
<1>3. m \in Nat /\ \A i \in 1..m : i \in 1..Len(s)
  BY <1>1
<1>4. front \in Seq(Item)
  BY <1>3, SplitType
<1> HIDE DEF front, rest
<1>5. \A x \in batch : \E i \in 1..m : x = front[i] /\ x = s[i] /\ i \in 1..Len(s)
  BY <1>1, <1>3 DEF Elements
<1>6. batch # {}
  <2>1. 1 \in 1..m
    BY <1>3
  <2>. QED BY <1>1, <2>1 DEF Elements
<1>7. ASSUME NEW x \in batch, NEW y \in others PROVE x[1] = y[1] => x[2] < y[2] /\ x # y
  <2>1. PICK i \in 1..m : x = s[i] /\ i \in 1..Len(s)
    BY <1>5
  <2>2. y[2] \in Nat /\ x[2] \in Nat
    BY <1>2, <2>1 DEF Item
  <2>3. x[1] = y[1] => x[2] < y[2]
    BY <1>1, <2>1
  <2>4. x = y => x[1] = y[1] /\ x[2] = y[2]
    OBVIOUS
  <2>. QED BY <2>2, <2>3, <2>4
<1>8. ASSUME NEW x \in batch, NEW y \in Elements(rest) PROVE x[1] = y[1] => x[2] < y[2] /\ x # y
  <2>1. PICK i \in 1..m : x = front[i] /\ x = s[i] /\ i \in 1..Len(s)
    BY <1>5
  <2>2. PICK j \in 1..(Len(s) - m) : y = rest[j]
    BY <1>1 DEF Elements
  <2>3. m + j \in 1..Len(s)
    BY <1>1, <1>3
  <2>4. y[2] \in Nat /\ x[2] \in Nat
    BY <1>1, <1>2, <2>1, <2>2, <2>3
  <2>5. x[1] = y[1] => x[2] < y[2]
    BY <1>1, <2>1, <2>2 DEF Precedes
  <2>6. x = y => x[1] = y[1] /\ x[2] = y[2]
    OBVIOUS
  <2>. QED BY <2>4, <2>5, <2>6
<1>9. \A x \in batch : x[2] \in Nat
  BY <1>2, <1>5
<1>10. \A y \in Elements(rest) \cup others : y[2] \in Nat
  <2>1. ASSUME NEW j \in 1..(Len(s) - m) PROVE rest[j][2] \in Nat
    <3>1. m + j \in 1..Len(s)
      BY <1>1, <1>3
    <3>. QED BY <1>1, <1>2, <3>1
  <2>. QED BY <1>1, <2>1 DEF Elements, Item
<1>11. \A x \in batch, y \in batch \cup Elements(rest) \cup others :
          Abstract!Older(y, x) => y \in batch
  BY <1>7, <1>8, <1>9, <1>10 DEF Abstract!Older
<1>12. \A x \in batch : x \notin Elements(rest) \cup others
  BY <1>7, <1>8
<1>13. front \in Abstract!Arrangements(batch)
  <2>1. front \in [1..m -> batch]
    BY <1>1, <1>4, LenProperties DEF Elements
  <2>2. ASSUME NEW i \in 1..m, NEW j \in 1..m, i < j
        PROVE  front[i] # front[j] /\ ~Abstract!Older(front[j], front[i])
    <3>1. front[i][2] \in Nat /\ front[j][2] \in Nat
      BY <1>1, <1>2, <1>3
    <3>2. front[i][1] = front[j][1] => front[i][2] < front[j][2]
      BY <1>1, <2>2 DEF Ascending
    <3>3. front[i] # front[j]
      BY <3>1, <3>2
    <3>4. ~Abstract!Older(front[j], front[i])
      BY <3>1, <3>2 DEF Abstract!Older
    <3>. QED BY <3>3, <3>4
  <2>3. front \in Bijection(1..m, batch)
    <3>1. \A i, j \in 1..m : front[i] = front[j] => i = j
      BY <1>3, <2>2
    <3>2. \A x \in batch : \E i \in 1..m : front[i] = x
      BY <1>5
    <3>. QED BY <2>1, <3>1, <3>2 DEF Bijection, Injection, Surjection, IsInjective
  <2>4. Cardinality(batch) = m
    BY <1>3, <2>3, FS_CountingElements DEF ExistsBijection
  <2>5. \A i, j \in DOMAIN front : i < j => front[i] # front[j] /\ ~Abstract!Older(front[j], front[i])
    BY <1>1, <2>2
  <2> HIDE DEF batch
  <2>6. Abstract!Cardinality(batch) = Cardinality(batch)
    BY DEF Abstract!Cardinality, Cardinality
  <2>7. front \in [1..Abstract!Cardinality(batch) -> batch]
    BY <2>1, <2>4, <2>6
  <2>. QED BY <2>5, <2>7 DEF Abstract!Arrangements
<1>. QED BY <1>1, <1>6, <1>11, <1>12, <1>13 DEF front, rest

---------------------------------------------------------------------------------
(* The order is kept by every step. *)

LEMMA BufferFacts ==
    ASSUME Inv
    PROVE  /\ buffer \in Seq(Item) /\ Len(buffer) \in Nat /\ DOMAIN buffer = 1..Len(buffer)
           /\ \A i \in DOMAIN buffer : buffer[i] \in Item
           /\ \A t \in Threads : /\ inner[t] \in Seq(Item) /\ Len(inner[t]) \in Nat
                                 /\ DOMAIN inner[t] = 1..Len(inner[t])
                                 /\ \A i \in DOMAIN inner[t] : inner[t][i] \in Item
<1>1. buffer \in Seq(Item) /\ \A t \in Threads : inner[t] \in Seq(Item)
  BY DEF Inv, TypeOK, Threads
<1>. QED BY <1>1, LenProperties, ElementOfSeq

\* The item a push adds is newer than everything of its producer.
LEMMA HeldOrder ==
    ASSUME Inv, InOrder, NEW p \in Producers, CountPush(p)
    PROVE  /\ Held(p) \in Seq(Item)
           /\ Ascending(Held(p)) /\ Precedes(buffer, Held(p))
           /\ Elements(Held(p)) = Elements(inner[p]) \cup {<<p, pushed[p] + 1>>}
           /\ \A i \in DOMAIN Held(p) : Held(p)[i][1] = p /\ Held(p)[i][2] <= pushed'[p]
           /\ pushed'[p] = pushed[p] + 1 /\ \A q \in Producers \ {p} : pushed'[q] = pushed[q]
<1> DEFINE item == <<p, pushed[p] + 1>>
           held == Append(inner[p], item)
<1>1. /\ p \in Threads /\ inner[p] \in Seq(Item) /\ Len(inner[p]) \in Nat
      /\ DOMAIN inner[p] = 1..Len(inner[p])
      /\ pushed \in [Producers -> 0..N] /\ N \in Nat
  BY BufferFacts, FifoAssumption DEF Threads, Inv, TypeOK
<1>2. held \in Seq(Item)
  BY HeldType DEF Held
<1>3. item[1] = p /\ item[2] = pushed[p] + 1 /\ pushed[p] \in Nat
  BY <1>1
<1>4. item \in Item
  <2>1. Share[p] \in 0..N
    BY FifoAssumption
  <2>. QED BY <1>1, <2>1 DEF Item, CountPush
<1> HIDE DEF item
<1>5. /\ Len(held) = Len(inner[p]) + 1
      /\ \A i \in 1..Len(inner[p]) : held[i] = inner[p][i]
      /\ held[Len(inner[p]) + 1] = item
  BY <1>1, <1>4, AppendProperties
<1>6. DOMAIN held = 1..(Len(inner[p]) + 1)
  BY <1>2, <1>5, LenProperties
<1> HIDE DEF held
<1>7. \A i \in DOMAIN held : i \in DOMAIN inner[p] \/ i = Len(inner[p]) + 1
  BY <1>1, <1>6
<1>8. \A i \in DOMAIN inner[p] : /\ inner[p][i][1] = p /\ inner[p][i][2] <= pushed[p]
                                 /\ inner[p][i][2] \in Nat
  BY <1>1, BufferFacts DEF InOrder, Item
<1>9. \A i \in DOMAIN buffer : /\ buffer[i][1] \in Producers /\ buffer[i][2] \in Nat
                               /\ buffer[i][2] <= pushed[buffer[i][1]]
  BY BufferFacts DEF InOrder, Item
<1>10. pushed'[p] = pushed[p] + 1 /\ \A q \in Producers \ {p} : pushed'[q] = pushed[q]
  BY <1>1 DEF CountPush
<1>11. Ascending(held)
  <2>1. ASSUME NEW i \in DOMAIN held, NEW j \in DOMAIN held, i < j
        PROVE  held[i][1] = held[j][1] => held[i][2] < held[j][2]
    <3>1. i \in DOMAIN inner[p] /\ held[i] = inner[p][i]
      BY <1>1, <1>5, <1>6, <1>7, <2>1
    <3>2. CASE j \in DOMAIN inner[p]
      <4>1. held[j] = inner[p][j]
        BY <1>1, <1>5, <3>2
      <4>. QED BY <2>1, <3>1, <3>2, <4>1 DEF InOrder, Ascending
    <3>3. CASE j = Len(inner[p]) + 1
      BY <1>3, <1>5, <1>8, <3>1, <3>3
    <3>. QED BY <1>7, <3>2, <3>3
  <2>. QED BY <2>1 DEF Ascending
<1>12. Precedes(buffer, held)
  <2>1. ASSUME NEW i \in DOMAIN buffer, NEW j \in DOMAIN held, buffer[i][1] = held[j][1]
        PROVE  buffer[i][2] < held[j][2]
    <3>1. CASE j \in DOMAIN inner[p]
      <4>1. held[j] = inner[p][j]
        BY <1>1, <1>5, <3>1
      <4>. QED BY <2>1, <3>1, <4>1 DEF InOrder, Precedes
    <3>2. CASE j = Len(inner[p]) + 1
      <4>1. held[j] = item
        BY <1>5, <3>2
      <4>2. buffer[i][1] = p
        BY <1>3, <2>1, <4>1
      <4>. QED BY <1>3, <1>9, <4>1, <4>2
    <3>. QED BY <1>7, <3>1, <3>2
  <2>. QED BY <2>1 DEF Precedes
<1>13. ASSUME NEW i \in DOMAIN held
       PROVE  held[i][1] = p /\ held[i][2] <= pushed'[p]
  <2>1. CASE i \in DOMAIN inner[p]
    <3>1. held[i] = inner[p][i]
      BY <1>1, <1>5, <2>1
    <3>. QED BY <1>3, <1>8, <1>10, <2>1, <3>1
  <2>2. CASE i = Len(inner[p]) + 1
    BY <1>3, <1>5, <1>10, <2>2
  <2>. QED BY <1>7, <2>1, <2>2
<1>14. Elements(held) = Elements(inner[p]) \cup {item}
  <2>1. \A i \in 1..Len(inner[p]) : i \in 1..(Len(inner[p]) + 1)
    BY <1>1
  <2>2. Len(inner[p]) + 1 \in 1..(Len(inner[p]) + 1)
    BY <1>1
  <2>3. Elements(inner[p]) \subseteq Elements(held)
    BY <1>1, <1>5, <1>6, <2>1 DEF Elements
  <2>4. item \in Elements(held)
    BY <1>5, <1>6, <2>2 DEF Elements
  <2>5. ASSUME NEW i \in DOMAIN held PROVE held[i] \in Elements(inner[p]) \cup {item}
    BY <1>1, <1>5, <1>7 DEF Elements
  <2>6. Elements(held) \subseteq Elements(inner[p]) \cup {item}
    BY <2>5 DEF Elements
  <2>. QED BY <2>3, <2>4, <2>6
<1>15. Held(p) = held
  BY DEF Held, held, item
<1>. QED BY <1>2, <1>10, <1>11, <1>12, <1>13, <1>14, <1>15 DEF item

\* A transfer of elements that p holds, all or with the pushed item, which are newer than what
\* _buffer has of p.
LEMMA TransferOrder ==
    ASSUME Inv, InOrder, NEW p \in Producers, NEW elements \in Seq(Item), NEW counter,
           _transfer(p, elements, counter),
           Ascending(elements), Precedes(buffer, elements),
           \A i \in DOMAIN elements : elements[i][1] = p /\ elements[i][2] <= pushed'[p],
           \/ pushed' = pushed
           \/ pushed'[p] = pushed[p] + 1 /\ \A q \in Producers \ {p} : pushed'[q] = pushed[q]
    PROVE  /\ InOrder'
           /\ Elements(buffer') = Elements(buffer) \cup Elements(elements)
           /\ inner'[p] = <<>> /\ \A u \in Threads \ {p} : inner'[u] = inner[u]
<1>1. /\ p \in Threads /\ buffer \in Seq(Item) /\ Len(buffer) \in Nat
      /\ DOMAIN buffer = 1..Len(buffer)
      /\ inner \in [Threads -> Seq(Item)] /\ pushed \in [Producers -> 0..N]
      /\ Len(elements) \in Nat /\ DOMAIN elements = 1..Len(elements)
  BY BufferFacts, LenProperties DEF Threads, Inv, TypeOK
<1>2. buffer' = buffer \o elements /\ inner' = [inner EXCEPT ![p] = <<>>]
  BY DEF _transfer
<1>3. inner'[p] = <<>> /\ \A u \in Threads \ {p} : inner'[u] = inner[u]
  BY <1>1, <1>2
<1>4. Ascending(buffer') /\ Elements(buffer') = Elements(buffer) \cup Elements(elements)
  BY <1>1, <1>2, ConcatOrder DEF InOrder
<1>5. /\ DOMAIN buffer' = 1..(Len(buffer) + Len(elements))
      /\ \A i \in 1..(Len(buffer) + Len(elements)) :
            buffer'[i] = IF i <= Len(buffer) THEN buffer[i] ELSE elements[i - Len(buffer)]
  BY <1>1, <1>2, ConcatProperties, LenProperties
<1>6. \A i \in DOMAIN buffer' :
          \/ i \in DOMAIN buffer /\ buffer'[i] = buffer[i]
          \/ i - Len(buffer) \in DOMAIN elements /\ buffer'[i] = elements[i - Len(buffer)]
  BY <1>1, <1>5
<1>7. \A q \in Producers : pushed[q] \in Nat /\ pushed'[q] \in Nat /\ pushed[q] <= pushed'[q]
  BY <1>1
<1>8. \A i \in DOMAIN buffer : /\ buffer[i][1] \in Producers /\ buffer[i][2] \in Nat
                               /\ buffer[i][2] <= pushed[buffer[i][1]]
  BY BufferFacts DEF InOrder, Item
<1>9. ASSUME NEW i \in DOMAIN buffer' PROVE buffer'[i][2] <= pushed'[buffer'[i][1]]
  <2>1. CASE i \in DOMAIN buffer /\ buffer'[i] = buffer[i]
    BY <1>7, <1>8, <2>1
  <2>2. CASE i - Len(buffer) \in DOMAIN elements /\ buffer'[i] = elements[i - Len(buffer)]
    BY <2>2
  <2>. QED BY <1>6, <2>1, <2>2
<1>10. ASSUME NEW q \in Producers
       PROVE  /\ Ascending(inner'[q]) /\ Precedes(buffer', inner'[q])
              /\ \A i \in DOMAIN inner'[q] : inner'[q][i][1] = q /\ inner'[q][i][2] <= pushed'[q]
  <2>1. CASE q = p
    <3>1. DOMAIN <<>> = {}
      OBVIOUS
    <3>. QED BY <1>3, <2>1, <3>1 DEF Ascending, Precedes
  <2>2. CASE q # p
    <3>1. inner'[q] = inner[q] /\ pushed'[q] = pushed[q]
      BY <1>3, <2>2 DEF Threads
    <3>2. ASSUME NEW i \in DOMAIN buffer', NEW j \in DOMAIN inner[q], buffer'[i][1] = inner[q][j][1]
          PROVE  buffer'[i][2] < inner[q][j][2]
      <4>1. inner[q][j][1] = q
        BY DEF InOrder
      <4>2. i \in DOMAIN buffer /\ buffer'[i] = buffer[i]
        BY <1>6, <2>2, <3>2, <4>1
      <4>. QED BY <3>2, <4>2 DEF InOrder, Precedes
    <3>. QED BY <3>1, <3>2 DEF InOrder, Precedes
  <2>. QED BY <2>1, <2>2
<1>. QED BY <1>3, <1>4, <1>9, <1>10 DEF InOrder

\* Whom a transfer moves: p to its next position, and perhaps one consumer out of its wait.
LEMMA TransferPositions ==
    ASSUME Inv, Emptied, NEW p \in Producers, NEW elements,
           NEW position \in {"push", "terminate"},
           _transfer(p, elements, [pc EXCEPT ![p] = position])
    PROVE  /\ pc'[p] = position
           /\ \A q \in Producers \ {p} : pc'[q] = pc[q]
           /\ \A c \in Consumers : pc'[c] = pc[c] \/ (pc[c] = "wait" /\ pc'[c] = "pop")
<1>1. pc \in [Threads -> Positions] /\ \A c \in Consumers : c \notin Producers /\ c \in Threads
  BY FifoAssumption DEF Inv, TypeOK, Threads, Positions
<1>2. p \in Threads /\ \A q \in Producers : q \in Threads
  BY DEF Threads
<1>3. CASE pc' = [pc EXCEPT ![p] = position]
  BY <1>1, <1>2, <1>3
<1>4. CASE \E c \in Sleepers : pc' = [[pc EXCEPT ![p] = position] EXCEPT ![c] = "pop"]
  <2>1. PICK c \in Sleepers : pc' = [[pc EXCEPT ![p] = position] EXCEPT ![c] = "pop"]
    BY <1>4
  <2>2. c \in Consumers /\ pc[c] = "wait"
    BY DEF Sleepers
  <2>. QED BY <1>1, <1>2, <2>1, <2>2
<1>. QED BY <1>3, <1>4 DEF _transfer, WakeOne

LEMMA PushOrder ==
    ASSUME Inv, InOrder, Emptied, NEW p \in Producers, push(p) \/ push_immediate(p)
    PROVE  /\ InOrder'
           /\ Elements(buffer') \cup Elements(inner'[p]) =
                  Elements(buffer) \cup Elements(inner[p]) \cup {<<p, pushed[p] + 1>>}
           /\ \A u \in Threads \ {p} : inner'[u] = inner[u]
           /\ pc'[p] = "push" /\ \A q \in Producers \ {p} : pc'[q] = pc[q]
           /\ \A c \in Consumers : pc'[c] = pc[c] \/ (pc[c] = "wait" /\ pc'[c] = "pop")
<1>1. CountPush(p) /\ pc[p] = "push" /\ pc = [pc EXCEPT ![p] = "push"]
  BY DEF push, push_immediate, CountPush, Inv, TypeOK
<1>2. /\ Held(p) \in Seq(Item) /\ Ascending(Held(p)) /\ Precedes(buffer, Held(p))
      /\ Elements(Held(p)) = Elements(inner[p]) \cup {<<p, pushed[p] + 1>>}
      /\ \A i \in DOMAIN Held(p) : Held(p)[i][1] = p /\ Held(p)[i][2] <= pushed'[p]
      /\ pushed'[p] = pushed[p] + 1 /\ \A q \in Producers \ {p} : pushed'[q] = pushed[q]
  BY <1>1, HeldOrder
<1>3. CASE inner' = [inner EXCEPT ![p] = Held(p)] /\ UNCHANGED <<buffer, pc>>
  <2>1. inner'[p] = Held(p) /\ \A u \in Threads \ {p} : inner'[u] = inner[u]
    BY <1>3 DEF Inv, TypeOK, Threads
  <2>2. \A i \in DOMAIN buffer : /\ buffer[i][1] \in Producers
                                 /\ buffer[i][2] \in Nat
                                 /\ buffer[i][2] <= pushed[buffer[i][1]]
    BY BufferFacts DEF InOrder, Item
  <2>3. \A q \in Producers : pushed[q] \in Nat /\ pushed'[q] \in Nat /\ pushed[q] <= pushed'[q]
    BY <1>2 DEF Inv, TypeOK
  <2>4. \A i \in DOMAIN buffer : buffer[i][2] <= pushed'[buffer[i][1]]
    BY <2>2, <2>3
  <2>5. ASSUME NEW q \in Producers
        PROVE  /\ Ascending(inner'[q]) /\ Precedes(buffer, inner'[q])
               /\ \A i \in DOMAIN inner'[q] : inner'[q][i][1] = q /\ inner'[q][i][2] <= pushed'[q]
    <3>1. CASE q = p
      BY <1>2, <2>1, <3>1
    <3>2. CASE q # p
      BY <1>2, <2>1, <3>2 DEF InOrder, Threads
    <3>. QED BY <3>1, <3>2
  <2>6. InOrder'
    BY <1>3, <2>4, <2>5 DEF InOrder
  <2>. QED BY <1>1, <1>2, <1>3, <2>1, <2>6
<1>4. CASE _transfer(p, Held(p), pc)
  <2>1. _transfer(p, Held(p), [pc EXCEPT ![p] = "push"])
    BY <1>1, <1>4
  <2>2. /\ InOrder'
        /\ Elements(buffer') = Elements(buffer) \cup Elements(Held(p))
        /\ inner'[p] = <<>> /\ \A u \in Threads \ {p} : inner'[u] = inner[u]
    BY <1>2, <1>4, TransferOrder
  <2>3. Elements(inner'[p]) = {}
    BY <2>2 DEF Elements
  <2>4. /\ pc'[p] = "push" /\ \A q \in Producers \ {p} : pc'[q] = pc[q]
        /\ \A c \in Consumers : pc'[c] = pc[c] \/ (pc[c] = "wait" /\ pc'[c] = "pop")
    BY <2>1, TransferPositions
  <2>. QED BY <1>2, <2>2, <2>3, <2>4
<1>. QED BY <1>3, <1>4 DEF push, push_immediate

LEMMA TransferStepOrder ==
    ASSUME Inv, InOrder, Emptied, NEW p \in Producers, transfer(p)
    PROVE  /\ InOrder'
           /\ Elements(buffer') \cup Elements(inner'[p]) = Elements(buffer) \cup Elements(inner[p])
           /\ inner'[p] = <<>> /\ \A u \in Threads \ {p} : inner'[u] = inner[u]
           /\ pc'[p] = "terminate" /\ \A q \in Producers \ {p} : pc'[q] = pc[q]
           /\ \A c \in Consumers : pc'[c] = pc[c] \/ (pc[c] = "wait" /\ pc'[c] = "pop")
<1>1. /\ inner[p] \in Seq(Item) /\ pushed' = pushed
      /\ _transfer(p, inner[p], [pc EXCEPT ![p] = "terminate"])
  BY DEF transfer, Inv, TypeOK
<1>2. /\ Ascending(inner[p]) /\ Precedes(buffer, inner[p])
      /\ \A i \in DOMAIN inner[p] : inner[p][i][1] = p /\ inner[p][i][2] <= pushed'[p]
  BY <1>1 DEF InOrder
<1>3. /\ InOrder'
      /\ Elements(buffer') = Elements(buffer) \cup Elements(inner[p])
      /\ inner'[p] = <<>> /\ \A u \in Threads \ {p} : inner'[u] = inner[u]
  BY <1>1, <1>2, TransferOrder
<1>4. Elements(inner'[p]) = {}
  BY <1>3 DEF Elements
<1>5. /\ pc'[p] = "terminate" /\ \A q \in Producers \ {p} : pc'[q] = pc[q]
      /\ \A c \in Consumers : pc'[c] = pc[c] \/ (pc[c] = "wait" /\ pc'[c] = "pop")
  BY <1>1, TransferPositions
<1>. QED BY <1>3, <1>4, <1>5

\* The last producer wakes every consumer that waits.
LEMMA TerminatePositions ==
    ASSUME Inv, Emptied, NEW p \in Producers, terminate(p)
    PROVE  /\ pc'[p] = "done" /\ \A q \in Producers \ {p} : pc'[q] = pc[q]
           /\ \A c \in Consumers : pc'[c] = pc[c] \/ (pc[c] = "wait" /\ pc'[c] = "pop")
           /\ UNCHANGED <<buffer, inner, pushed, taken>>
<1>1. DOMAIN pc = Threads /\ p \in Threads /\ p \notin Consumers
      /\ \A q \in Producers : q \in Threads /\ q \notin Sleepers
      /\ \A c \in Consumers : c \in Threads
  BY FifoAssumption DEF Inv, TypeOK, Threads, Sleepers
<1>. QED BY <1>1 DEF terminate, Sleepers

LEMMA PopOrder ==
    ASSUME Inv, InOrder, NEW c \in Consumers, pop(c)
    PROVE  InOrder'
<1>1. /\ c \in Threads /\ c \notin Producers /\ \A p \in Producers : p \in Threads
      /\ Taken \in Nat \ {0} /\ buffer \in Seq(Item) /\ Len(buffer) \in Nat
      /\ inner \in [Threads -> Seq(Item)] /\ pushed' = pushed
  BY BufferFacts, FifoAssumption DEF Threads, Inv, TypeOK, pop
<1>2. CASE UNCHANGED <<buffer, inner>>
  BY <1>1, <1>2 DEF InOrder
<1>3. CASE buffer # <<>>
  <2> DEFINE m == IF Len(buffer) < Taken THEN Len(buffer) ELSE Taken
             front == Front(m, buffer)
             rest == Rest(m, buffer)
  <2>1. m \in 0..Len(buffer)
    BY <1>1
  <2>2. buffer' = rest /\ inner' = [inner EXCEPT ![c] = front]
    BY <1>3 DEF pop, Front, Rest
  <2> HIDE DEF m
  <2>3. /\ Ascending(rest) /\ DOMAIN rest = 1..(Len(buffer) - m) /\ DOMAIN buffer = 1..Len(buffer)
        /\ \A i \in 1..(Len(buffer) - m) : rest[i] = buffer[m + i]
    BY <1>1, <2>1, SplitOrder DEF InOrder
  <2> HIDE DEF front, rest
  <2>4. \A i \in DOMAIN rest : m + i \in DOMAIN buffer /\ rest[i] = buffer[m + i]
    BY <1>1, <2>1, <2>3
  <2>5. \A p \in Producers : inner'[p] = inner[p]
    BY <1>1, <2>2
  <2>6. ASSUME NEW p \in Producers PROVE Precedes(rest, inner[p])
    BY <2>4 DEF InOrder, Precedes
  <2>7. \A i \in DOMAIN rest : rest[i][2] <= pushed[rest[i][1]]
    BY <2>4 DEF InOrder
  <2>. QED BY <1>1, <2>2, <2>3, <2>5, <2>6, <2>7 DEF InOrder
<1>. QED BY <1>2, <1>3 DEF pop

LEMMA GiveOrder ==
    ASSUME Inv, InOrder, NEW c \in Consumers, Give(c)
    PROVE  InOrder' /\ \A p \in Producers : inner'[p] = inner[p]
<1>1. \A p \in Producers : inner'[p] = inner[p]
  BY FifoAssumption DEF Give, Inv, TypeOK
<1>. QED BY <1>1 DEF Give, InOrder

LEMMA NextEmptied ==
    ASSUME Inv, InOrder, Emptied, [Next]_vars
    PROVE  InOrder' /\ Emptied'
<1>1. /\ pc \in [Threads -> Positions] /\ inner \in [Threads -> Seq(Item)]
      /\ \A p \in Producers : p \in Threads /\ p \notin Consumers
      /\ \A c \in Consumers : c \in Threads /\ c \notin Producers
  BY FifoAssumption DEF Inv, TypeOK, Threads, Positions
<1>2. ASSUME NEW p \in Producers, push(p) \/ push_immediate(p) \/ transfer(p)
      PROVE  InOrder' /\ Emptied'
  <2>1. /\ InOrder' /\ \A u \in Threads \ {p} : inner'[u] = inner[u]
        /\ \/ pc'[p] = "push"
           \/ pc'[p] = "terminate" /\ inner'[p] = <<>>
        /\ \A q \in Producers \ {p} : pc'[q] = pc[q]
        /\ \A c \in Consumers : pc'[c] = pc[c] \/ (pc[c] = "wait" /\ pc'[c] = "pop")
    BY <1>2, PushOrder, TransferStepOrder
  <2>. QED BY <1>1, <2>1 DEF Emptied
<1>3. ASSUME NEW p \in Producers, terminate(p)
      PROVE  InOrder' /\ Emptied'
  <2>1. /\ pc'[p] = "done" /\ \A q \in Producers \ {p} : pc'[q] = pc[q]
        /\ \A c \in Consumers : pc'[c] = pc[c] \/ (pc[c] = "wait" /\ pc'[c] = "pop")
        /\ UNCHANGED <<buffer, inner, pushed>>
    BY <1>3, TerminatePositions
  <2>2. inner[p] = <<>>
    BY <1>3 DEF terminate, Emptied
  <2>3. InOrder'
    BY <2>1 DEF InOrder
  <2>. QED BY <2>1, <2>2, <2>3 DEF Emptied
<1>4. ASSUME NEW c \in Consumers, pop(c)
      PROVE  InOrder' /\ Emptied'
  <2>1. \A u \in Threads \ {c} : pc'[u] = pc[u] /\ inner'[u] = inner[u]
    BY <1>1, <1>4 DEF pop
  <2>2. pc'[c] \in {"pop", "wait", "done"} /\ (pc'[c] # "pop" => inner'[c] = <<>>)
    BY <1>1, <1>4 DEF pop
  <2>. QED BY <1>1, <1>4, <2>1, <2>2, PopOrder DEF Emptied
<1>5. ASSUME NEW c \in Consumers, Give(c)
      PROVE  InOrder' /\ Emptied'
  <2>1. pc' = pc /\ pc[c] = "pop" /\ \A u \in Threads \ {c} : inner'[u] = inner[u]
    BY <1>1, <1>5 DEF Give
  <2>. QED BY <1>1, <1>5, <2>1, GiveOrder DEF Emptied
<1>6. CASE UNCHANGED vars
  BY <1>6 DEF vars, InOrder, Emptied
<1>. QED BY <1>2, <1>3, <1>4, <1>5, <1>6 DEF Next, Produce, Consume

---------------------------------------------------------------------------------
(* Every step is one of the channel, or none. *)

Unclaimed == Elements(buffer) \cup UNION {Elements(inner[p]) : p \in Producers}
OfOthers(p) == UNION {Elements(inner[q]) : q \in Producers \ {p}}
Claimed == [c \in Consumers |-> inner[c]]
Closed == {p \in Producers : pc[p] = "done"}
Ended == {c \in Consumers : pc[c] = "done"}

LEMMA SplitUnclaimed ==
    ASSUME NEW p \in Producers, \A q \in Producers \ {p} : inner'[q] = inner[q]
    PROVE  /\ Unclaimed = Elements(buffer) \cup Elements(inner[p]) \cup OfOthers(p)
           /\ Unclaimed' = Elements(buffer') \cup Elements(inner'[p]) \cup OfOthers(p)
<1>1. Unclaimed = Elements(buffer) \cup Elements(inner[p]) \cup OfOthers(p)
  BY DEF Unclaimed, OfOthers
<1>2. UNION {Elements(inner'[q]) : q \in Producers \ {p}} = OfOthers(p)
  BY DEF OfOthers
<1>3. Unclaimed' = Elements(buffer') \cup UNION {Elements(inner'[q]) : q \in Producers}
  BY DEF Unclaimed, Elements
<1>. QED BY <1>1, <1>2, <1>3

LEMMA InitChannel == Init => Abstract!Init /\ InOrder /\ Emptied
<1> SUFFICES ASSUME Init PROVE Abstract!Init /\ InOrder /\ Emptied
  OBVIOUS
<1> USE DEF Init
<1>1. Elements(<<>>) = {} /\ DOMAIN <<>> = {}
  BY DEF Elements
<1>2. \A p \in Producers : p \notin Consumers
  BY FifoAssumption
<1>3. Elements(buffer) \cup UNION {Elements(inner[p]) : p \in Producers} = {}
  BY <1>1
<1>4. [c \in Consumers |-> inner[c]] = [c \in Consumers |-> <<>>]
  OBVIOUS
<1>5. {p \in Producers : pc[p] = "done"} = {} /\ {c \in Consumers : pc[c] = "done"} = {}
  OBVIOUS
<1>6. InOrder
  BY <1>1 DEF InOrder, Ascending, Precedes
<1>7. Emptied
  BY <1>2 DEF Emptied
<1>. QED BY <1>3, <1>4, <1>5, <1>6, <1>7 DEF Abstract!Init

LEMMA PushRefines ==
    ASSUME Inv, InOrder, Emptied, NEW p \in Producers, push(p) \/ push_immediate(p)
    PROVE  Abstract!Next
<1>1. /\ Elements(buffer') \cup Elements(inner'[p]) =
             Elements(buffer) \cup Elements(inner[p]) \cup {<<p, pushed[p] + 1>>}
      /\ \A u \in Threads \ {p} : inner'[u] = inner[u]
      /\ pc'[p] = "push" /\ \A q \in Producers \ {p} : pc'[q] = pc[q]
      /\ \A c \in Consumers : pc'[c] = pc[c] \/ (pc[c] = "wait" /\ pc'[c] = "pop")
  BY PushOrder
<1>2. \A c \in Consumers : c \in Threads /\ c # p
  BY FifoAssumption DEF Threads
<1>3. Unclaimed' = Unclaimed \cup {<<p, pushed[p] + 1>>}
  <2>1. \A q \in Producers \ {p} : inner'[q] = inner[q]
    BY <1>1 DEF Threads
  <2>. QED BY <1>1, <2>1, SplitUnclaimed
<1>4. Claimed' = Claimed
  BY <1>1, <1>2 DEF Claimed
<1>5. CountPush(p)
  BY DEF push, push_immediate
<1>6. Closed' = Closed /\ Ended' = Ended /\ p \notin Closed
  BY <1>1, <1>5 DEF Closed, Ended, CountPush
<1>7. pushed[p] < N /\ pushed' = [pushed EXCEPT ![p] = @ + 1] /\ taken' = taken
  <2>1. Share[p] \in 0..N /\ pushed[p] \in 0..N /\ N \in Nat
    BY FifoAssumption DEF Inv, TypeOK
  <2>. QED BY <1>5, <2>1 DEF CountPush
<1>8. Abstract!Send(p)
  BY <1>3, <1>4, <1>6, <1>7 DEF Abstract!Send, Unclaimed, Claimed, Closed, Ended
<1>. QED BY <1>8 DEF Abstract!Next

LEMMA TransferStepRefines ==
    ASSUME Inv, InOrder, Emptied, NEW p \in Producers, transfer(p)
    PROVE  UNCHANGED Abstract!vars
<1>1. /\ Elements(buffer') \cup Elements(inner'[p]) = Elements(buffer) \cup Elements(inner[p])
      /\ \A u \in Threads \ {p} : inner'[u] = inner[u]
      /\ pc'[p] = "terminate" /\ \A q \in Producers \ {p} : pc'[q] = pc[q]
      /\ \A c \in Consumers : pc'[c] = pc[c] \/ (pc[c] = "wait" /\ pc'[c] = "pop")
  BY TransferStepOrder
<1>2. \A c \in Consumers : c \in Threads /\ c # p
  BY FifoAssumption DEF Threads
<1>3. Unclaimed' = Unclaimed
  <2>1. \A q \in Producers \ {p} : inner'[q] = inner[q]
    BY <1>1 DEF Threads
  <2>. QED BY <1>1, <2>1, SplitUnclaimed
<1>4. Claimed' = Claimed
  BY <1>1, <1>2 DEF Claimed
<1>5. pc[p] = "push" /\ pushed' = pushed /\ taken' = taken
  BY DEF transfer
<1>6. Closed' = Closed /\ Ended' = Ended
  BY <1>1, <1>5 DEF Closed, Ended
<1>. QED BY <1>3, <1>4, <1>5, <1>6 DEF Abstract!vars, Unclaimed, Claimed, Closed, Ended

LEMMA TerminateRefines ==
    ASSUME Inv, Emptied, NEW p \in Producers, terminate(p)
    PROVE  Abstract!Next
<1>1. /\ pc'[p] = "done" /\ \A q \in Producers \ {p} : pc'[q] = pc[q]
      /\ \A c \in Consumers : pc'[c] = pc[c] \/ (pc[c] = "wait" /\ pc'[c] = "pop")
      /\ UNCHANGED <<buffer, inner, pushed, taken>>
  BY TerminatePositions
<1>2. pc[p] = "terminate"
  BY DEF terminate
<1>3. Closed' = Closed \cup {p} /\ Ended' = Ended /\ p \notin Closed
  BY <1>1, <1>2 DEF Closed, Ended
<1>4. Unclaimed' = Unclaimed /\ Claimed' = Claimed
  BY <1>1 DEF Unclaimed, Claimed
<1>5. Abstract!Close(p)
  BY <1>1, <1>3, <1>4 DEF Abstract!Close, Unclaimed, Claimed, Closed, Ended
<1>. QED BY <1>5 DEF Abstract!Next

LEMMA PopRefines ==
    ASSUME Inv, InOrder, Emptied, NEW c \in Consumers, pop(c)
    PROVE  [Abstract!Next]_Abstract!vars
<1>1. /\ c \in Threads /\ c \notin Producers /\ pc \in [Threads -> Positions] /\ pc[c] = "pop"
      /\ Taken \in Nat \ {0} /\ buffer \in Seq(Item) /\ Len(buffer) \in Nat
      /\ inner[c] = <<>> /\ inner \in [Threads -> Seq(Item)]
      /\ \A t \in Producers \cup Consumers : t \in Threads
  BY BufferFacts, FifoAssumption DEF Threads, Positions, Inv, TypeOK, pop
<1>2. pushed' = pushed /\ taken' = taken
  BY DEF pop
<1>3. CASE buffer = <<>> /\ UNCHANGED <<buffer, inner>>
           /\ pc' = [pc EXCEPT ![c] = IF terminated THEN "done" ELSE "wait"]
  <2>1. Unclaimed' = Unclaimed /\ Claimed' = Claimed /\ Claimed[c] = <<>>
    BY <1>1, <1>3 DEF Unclaimed, Claimed
  <2>2. \A t \in Threads \ {c} : pc'[t] = pc[t]
    BY <1>1, <1>3
  <2>3. Closed' = Closed
    BY <1>1, <2>2 DEF Closed
  <2>4. CASE ~terminated
    <3>1. pc'[c] = "wait"
      BY <1>1, <1>3, <2>4
    <3>2. Ended' = Ended
      BY <1>1, <2>2, <3>1 DEF Ended
    <3>. QED BY <1>2, <2>1, <2>3, <3>2 DEF Abstract!vars, Unclaimed, Claimed, Closed, Ended
  <2>5. CASE terminated
    <3>1. pc'[c] = "done"
      BY <1>1, <1>3, <2>5
    <3>2. Ended' = Ended \cup {c} /\ c \notin Ended
      BY <1>1, <2>2, <3>1 DEF Ended
    <3>3. Gone = Producers
      <4>1. Gone \in SUBSET Producers /\ IsFiniteSet(Producers)
        BY FifoAssumption DEF Gone
      <4>2. Cardinality(Gone) = Cardinality(Producers)
        BY <2>5 DEF terminated, Inv, Counted
      <4>. QED BY <4>1, <4>2, FS_Subset
    <3>4. Closed = Producers /\ \A p \in Producers : inner[p] = <<>>
      BY <3>3 DEF Gone, Closed, Emptied
    <3>5. Unclaimed = {}
      <4>1. Elements(<<>>) = {}
        BY DEF Elements
      <4>. QED BY <1>3, <3>4, <4>1 DEF Unclaimed
    <3>6. Abstract!End(c)
      BY <1>2, <2>1, <2>3, <3>2, <3>4, <3>5 DEF Abstract!End, Unclaimed, Claimed, Closed, Ended
    <3>. QED BY <3>6 DEF Abstract!Next
  <2>. QED BY <2>4, <2>5
<1>4. CASE buffer # <<>>
  <2> DEFINE m == IF Len(buffer) < Taken THEN Len(buffer) ELSE Taken
             front == Front(m, buffer)
             batch == Elements(front)
             others == UNION {Elements(inner[p]) : p \in Producers}
  <2>1. m \in 1..Len(buffer)
    BY <1>1, <1>4, EmptySeq
  <2>2. inner' = [inner EXCEPT ![c] = front] /\ buffer' = Rest(m, buffer) /\ pc' = pc
    BY <1>4 DEF pop, Front, Rest
  <2> HIDE DEF m
  <2>3. \A y \in others : \E p \in Producers : \E j \in DOMAIN inner[p] : y = inner[p][j]
    BY DEF Elements
  <2>4. \A i \in DOMAIN buffer, y \in others : buffer[i][1] = y[1] => buffer[i][2] < y[2]
    BY <2>3 DEF InOrder, Precedes
  <2>5. ASSUME NEW y \in others PROVE y \in Item
    <3>1. PICK p \in Producers : \E j \in DOMAIN inner[p] : y = inner[p][j]
      BY <2>3
    <3>. QED BY <1>1, <3>1, BufferFacts
  <2> HIDE DEF others
  <2>6. /\ batch # {} /\ batch \subseteq Elements(buffer) \cup others
        /\ \A x \in batch, y \in Elements(buffer) \cup others : Abstract!Older(y, x) => y \in batch
        /\ Elements(Rest(m, buffer)) \cup others = (Elements(buffer) \cup others) \ batch
        /\ front \in Abstract!Arrangements(batch)
    BY <1>1, <2>1, <2>4, <2>5, ClaimableBatch DEF InOrder
  <2>7. front \in Seq(Item)
    <3>1. m \in 0..Len(buffer)
      BY <2>1
    <3>. QED BY <1>1, <3>1, SplitType
  <2> HIDE DEF front, batch
  <2>8. Unclaimed = Elements(buffer) \cup others
    BY DEF Unclaimed, others
  <2>9. Unclaimed' = Unclaimed \ batch
    <3>1. \A p \in Producers : inner'[p] = inner[p]
      BY <1>1, <2>2
    <3>2. UNION {Elements(inner'[p]) : p \in Producers} = others
      BY <3>1 DEF others
    <3>3. Unclaimed' = Elements(buffer') \cup UNION {Elements(inner'[p]) : p \in Producers}
      BY DEF Unclaimed, Elements
    <3>. QED BY <2>2, <2>6, <2>8, <3>2, <3>3
  <2>10. Claimed' = [Claimed EXCEPT ![c] = @ \o front]
    <3>1. inner[c] \o front = front
      BY <1>1, <2>7, ConcatEmptySeq
    <3>. QED BY <1>1, <2>2, <3>1 DEF Claimed
  <2>11. Closed' = Closed /\ Ended' = Ended
    BY <2>2 DEF Closed, Ended
  <2>12. PICK b : b = batch
    OBVIOUS
  <2>13. b \in SUBSET Unclaimed /\ Abstract!Claim(c, b)
    BY <1>2, <2>6, <2>8, <2>9, <2>10, <2>11, <2>12
    DEF Abstract!Claim, Unclaimed, Claimed, Closed, Ended
  <2>14. \E d \in SUBSET Unclaimed : Abstract!Claim(c, d)
    BY <2>13
  <2>. QED BY <2>14 DEF Abstract!Next, Unclaimed
<1>. QED BY <1>3, <1>4 DEF pop

LEMMA GiveRefines ==
    ASSUME Inv, InOrder, NEW c \in Consumers, Give(c)
    PROVE  Abstract!Next
<1>1. /\ inner \in [Threads -> Seq(Item)] /\ c \in Threads
      /\ \A p \in Producers : inner'[p] = inner[p]
      /\ UNCHANGED <<buffer, pc, pushed>>
  BY GiveOrder DEF Inv, TypeOK, Threads, Give
<1>2. Unclaimed' = Unclaimed
  <2>1. UNION {Elements(inner'[p]) : p \in Producers} = UNION {Elements(inner[p]) : p \in Producers}
    BY <1>1
  <2>2. Unclaimed' = Elements(buffer') \cup UNION {Elements(inner'[p]) : p \in Producers}
    BY DEF Unclaimed, Elements
  <2>. QED BY <1>1, <2>1, <2>2 DEF Unclaimed
<1>3. Closed' = Closed /\ Ended' = Ended
  BY <1>1 DEF Closed, Ended
<1>4. Claimed[c] = inner[c] /\ Claimed' = [Claimed EXCEPT ![c] = Tail(@)]
  BY <1>1 DEF Claimed, Give, Threads
<1>5. Abstract!Receive(c)
  BY <1>1, <1>2, <1>3, <1>4 DEF Give, Abstract!Receive, Unclaimed, Claimed, Closed, Ended
<1>. QED BY <1>5 DEF Abstract!Next

\* FIFOPlus implements the channel: whatever the quantities become and whoever is woken, no item
\* is lost, duplicated or overtaken by a later one of its producer, and the end is told when
\* all is taken (fifo_plus.tpp: push, push_immediate, pop, transfer, terminate).
THEOREM FifoPlusImplementsChannel == Spec => ImplementsChannel
<1>1. ASSUME Inv, InOrder, Emptied, [Next]_vars PROVE [Abstract!Next]_Abstract!vars
  <2>1. ASSUME NEW p \in Producers, Produce(p) PROVE [Abstract!Next]_Abstract!vars
    BY <1>1, <2>1, PushRefines, TransferStepRefines, TerminateRefines DEF Produce
  <2>2. ASSUME NEW c \in Consumers, Consume(c) PROVE [Abstract!Next]_Abstract!vars
    BY <1>1, <2>2, PopRefines, GiveRefines DEF Consume
  <2>3. CASE UNCHANGED vars
    BY <2>3 DEF vars, Abstract!vars, Elements
  <2>. QED BY <1>1, <2>1, <2>2, <2>3 DEF Next
<1>2. Spec => [](InOrder /\ Emptied)
  <2>1. Inv /\ (InOrder /\ Emptied) /\ [Next]_vars => (InOrder /\ Emptied)'
    BY NextEmptied
  <2>. QED BY <2>1, InitChannel, Inductive, PTL DEF Spec
<1>. QED BY <1>1, <1>2, InitChannel, Inductive, PTL DEF Spec, ImplementsChannel, Abstract!Spec
================================================================================
