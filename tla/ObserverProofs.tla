----------------------------- MODULE ObserverProofs -----------------------------
(***************************************************************************)
(* For any number of threads and of wanted reports: the observer triggers  *)
(* only once both sides have reported enough, neither misses the trigger   *)
(* nor doubles it, takes no measure of the second phase before the first   *)
(* one is over, and knows a push time when it computes the first steps.    *)
(***************************************************************************)
EXTENDS Observer, TLAPS, FiniteSetTheorems

LEMMA Maxima == MaxProducers \in Nat /\ MaxConsumers \in Nat /\ MaxSecond \in Nat
<1>1. IsFiniteSet(Producers) /\ IsFiniteSet(Consumers)
  BY ObserverThreads, FS_Subset DEF Threads, Pushers
<1>2. Cardinality(Producers) \in Nat /\ Cardinality(Consumers) \in Nat
  BY <1>1, FS_CardinalityType
<1>. QED BY <1>2, ObserverSizes DEF MaxProducers, MaxConsumers, MaxSecond

\* What an answer of the observer changes
LEMMA AnswerType ==
    ASSUME TypeOK, NEW t \in Threads, NEW b \in BOOLEAN, Answer(t, b)
    PROVE  /\ timing' \in [Pushers -> BOOLEAN]
           /\ phase' \in [Pushers -> {"first", "second"}]
           /\ timingWork' \in [Threads -> BOOLEAN]
           /\ pc' \in [Threads -> Label] /\ pc'[t] \in {"check", "ready"}
           /\ \A c \in Consumers : pc'[c] = "check" => pc[c] = "check"
           /\ \A u \in Threads : u # t => pc'[u] = pc[u]
           /\ \A p \in Pushers : phase[p] = "second" => phase'[p] = "second"
           /\ \A p \in Pushers : p # t => phase'[p] = phase[p]
<1>1. CASE call[t] = "sync"
  <2>1. /\ timing' = [timing EXCEPT ![t] = b \/ ~applied[t]]
        /\ phase' = [phase EXCEPT ![t] = IF b \/ applied[t] THEN @ ELSE "second"]
        /\ pc' = [pc EXCEPT ![t] = "check"] /\ timingWork' = timingWork
    BY <1>1 DEF Answer, Goto
  <2>2. t \notin Consumers
    BY <1>1 DEF TypeOK
  <2>3. timing' \in [Pushers -> BOOLEAN]
    BY <2>1 DEF TypeOK
  <2>4. /\ phase' \in [Pushers -> {"first", "second"}]
        /\ \A p \in Pushers : phase[p] = "second" => phase'[p] = "second"
        /\ \A p \in Pushers : p # t => phase'[p] = phase[p]
    BY <2>1 DEF TypeOK
  <2>5. /\ pc' \in [Threads -> Label] /\ pc'[t] = "check"
        /\ \A u \in Threads : u # t => pc'[u] = pc[u]
    BY <2>1 DEF TypeOK, Label
  <2>. QED BY <2>1, <2>2, <2>3, <2>4, <2>5 DEF TypeOK, Threads
<1>2. CASE call[t] # "sync"
  <2>1. /\ timingWork' = [timingWork EXCEPT ![t] = b]
        /\ pc' = [pc EXCEPT ![t] = "ready"] /\ timing' = timing /\ phase' = phase
    BY <1>2 DEF Answer, Goto
  <2>2. /\ pc' \in [Threads -> Label] /\ pc'[t] = "ready"
        /\ \A u \in Threads : u # t => pc'[u] = pc[u]
    BY <2>1 DEF TypeOK, Label
  <2>. QED BY <2>1, <2>2 DEF TypeOK, Threads
<1>. QED BY <1>1, <1>2

LEMMA InitInv == Init => Inv
<1> SUFFICES ASSUME Init PROVE Inv
  OBVIOUS
<1>1. TypeOK
  BY ObserverSizes DEF Init, TypeOK, Label, Threads
<1>2. ReportsInFlight /\ AskedByTrigger /\ EnoughReports /\ SecondPhaseFollowsFirst
  BY DEF Init, ReportsInFlight, AskedByTrigger, EnoughReports, SecondPhaseFollowsFirst, Threads,
         Pushers
<1>3. NoMissedTrigger
  BY Maxima DEF Init, NoMissedTrigger
<1>. QED BY <1>1, <1>2, <1>3 DEF Inv

(***************************************************************************)
(* A step that counts nothing and takes no decision: every thread that is  *)
(* recording or triggering stays where it is.                              *)
(***************************************************************************)
LEMMA QuietStep ==
    ASSUME Inv, TypeOK', UNCHANGED <<counters, triggered, old>>,
           \A u \in Threads : applied[u] => applied'[u],
           \A u \in Threads : flag'[u] \/ applied'[u] => triggered,
           \A u \in Threads : pc'[u] \in {"ready", "check", "count"} \/ pc'[u] = pc[u],
           \A u \in Threads : pc[u] \in {"record", "trigger"} => pc'[u] = pc[u],
           \A u \in Threads : pc'[u] \in {"record", "trigger"} => call'[u] = call[u],
           \A p \in Pushers : pc'[p] \in {"record", "trigger"} => phase'[p] = phase[p],
           \A p \in Pushers : phase[p] = "second" => phase'[p] = "second"
    PROVE  Inv'
<1>1. producerCount' = producerCount /\ consumerCount' = consumerCount /\ secondCount' = secondCount
  BY DEF counters
<1>2. \A u \in Producers \cup Consumers :
          pc'[u] \in {"record", "trigger"} => pc'[u] = pc[u] /\ (Second(u)' <=> Second(u))
  <2> SUFFICES ASSUME NEW u \in Producers \cup Consumers, pc'[u] \in {"record", "trigger"}
               PROVE  pc'[u] = pc[u] /\ (Second(u)' <=> Second(u))
    OBVIOUS
  <2>1. u \in Threads
    BY DEF Threads, Pushers
  <2>2. call'[u] = call[u] /\ pc'[u] = pc[u]
    BY <2>1
  <2>3. CASE u \in Consumers
    BY <2>2, <2>3 DEF Inv, TypeOK, Second
  <2>4. CASE u \in Producers
    BY <2>2, <2>4 DEF Second, Pushers
  <2>. QED BY <2>3, <2>4, <2>2
<1>3. ReportsInFlight'
  <2>1. ASSUME NEW u \in Producers \cup Consumers
        PROVE  /\ pc'[u] = "record" => ~Second(u)' /\ Count(u)' > old'[u]
               /\ pc'[u] = "trigger" /\ ~Second(u)' => BothDone'
               /\ pc'[u] = "trigger" /\ Second(u)' => applied'[u]
    BY <1>1, <1>2 DEF Inv, ReportsInFlight, Count, BothDone, Threads, Pushers
  <2>. QED BY <2>1 DEF ReportsInFlight
<1>4. AskedByTrigger'
  BY DEF Inv, AskedByTrigger
<1>5. EnoughReports'
  BY <1>1 DEF Inv, EnoughReports
<1>6. NoMissedTrigger'
  <2>1. ASSUME NEW u \in Producers \cup Consumers, Deciding(u) PROVE Deciding(u)'
    <3>1. pc'[u] = pc[u]
      BY <2>1 DEF Deciding, Threads, Pushers
    <3>. QED BY <2>1, <3>1, <1>2 DEF Deciding, Max
  <2>. QED BY <1>1, <2>1 DEF Inv, NoMissedTrigger
<1>7. SecondPhaseFollowsFirst'
  BY <1>1 DEF Inv, SecondPhaseFollowsFirst, Threads, Pushers
<1>. QED BY <1>3, <1>4, <1>5, <1>6, <1>7 DEF Inv

LEMMA PushInv ==
    ASSUME Inv, NEW p \in Pushers, GenericPush(p)
    PROVE  Inv'
<1>1. p \in Threads /\ fill' \in [Threads -> Nat]
  BY DEF Inv, TypeOK, GenericPush, Threads
<1>2. pc' \in [Threads -> Label] /\ pc'[p] \in {"check", "count"}
  BY <1>1 DEF Inv, TypeOK, GenericPush, Goto, Label
<1>3. call' \in [Threads -> {"sync", "work"}] /\ \A u \in Threads : u # p => call'[u] = call[u]
  BY <1>1 DEF Inv, TypeOK, GenericPush
<1>4. \A u \in Threads : u # p => pc'[u] = pc[u]
  BY DEF Inv, TypeOK, GenericPush, Goto
<1>5. UNCHANGED <<counters, triggers, pushTimes, step, applied, requests, caller, old, todo>>
  BY DEF GenericPush
<1>6. \A c \in Consumers : call'[c] = "work" /\ (pc'[c] = "check" => fill'[c] # 0)
  <2> SUFFICES ASSUME NEW c \in Consumers
               PROVE  call'[c] = "work" /\ (pc'[c] = "check" => fill'[c] # 0)
    OBVIOUS
  <2>1. c \in Threads /\ c # p
    BY ObserverThreads DEF Threads, Pushers
  <2>2. fill'[c] = fill[c]
    BY <2>1 DEF GenericPush, Inv, TypeOK
  <2>. QED BY <1>3, <1>4, <2>1, <2>2 DEF Inv, TypeOK
<1>7. TypeOK'
  BY <1>1, <1>2, <1>3, <1>5, <1>6 DEF Inv, TypeOK, counters, triggers, requests, caller
<1>8. pc[p] = "ready"
  BY DEF GenericPush
<1>. QED BY <1>1, <1>2, <1>3, <1>4, <1>5, <1>7, <1>8, QuietStep
     DEF Inv, AskedByTrigger, triggers, requests, caller

LEMMA PopInv ==
    ASSUME Inv, NEW c \in Consumers, Pop(c)
    PROVE  Inv'
<1>1. c \in Threads /\ fill' \in [Threads -> Nat]
  BY DEF Inv, TypeOK, Pop, Threads
<1>2. pc' \in [Threads -> Label] /\ pc'[c] = "check" /\ pc[c] = "ready"
  BY <1>1 DEF Inv, TypeOK, Pop, Goto, Label
<1>3. \A u \in Threads : u # c => pc'[u] = pc[u] /\ fill'[u] = fill[u]
  BY DEF Inv, TypeOK, Pop, Goto
<1>4. UNCHANGED <<counters, triggers, pushTimes, step, applied, requests, caller, call, old, todo>>
  BY DEF Pop
<1>5. \A d \in Consumers : call'[d] = "work" /\ (pc'[d] = "check" => fill'[d] # 0)
  <2>1. fill'[c] # 0
    BY <1>1 DEF Inv, TypeOK, Pop
  <2>. QED BY <1>1, <1>2, <1>3, <1>4, <2>1 DEF Inv, TypeOK, Threads
<1>6. TypeOK'
  BY <1>1, <1>2, <1>4, <1>5 DEF Inv, TypeOK, counters, triggers, requests, caller
<1>. QED BY <1>1, <1>2, <1>3, <1>4, <1>6, QuietStep
     DEF Inv, AskedByTrigger, triggers, requests, caller

LEMMA ReconfigureInv ==
    ASSUME Inv, NEW t \in Threads, Reconfigure(t)
    PROVE  Inv'
<1> DEFINE resized == flag[t] /\ Fits(t)
<1>1. /\ step' = [step EXCEPT ![t] = IF resized THEN newStep[t] ELSE @]
      /\ applied' = [applied EXCEPT ![t] = @ \/ resized]
      /\ flag' = [flag EXCEPT ![t] = @ /\ ~resized]
      /\ pc[t] = "check"
  BY DEF Reconfigure
<1>3. /\ applied' \in [Threads -> BOOLEAN] /\ flag' \in [Threads -> BOOLEAN]
      /\ \A u \in Threads : applied[u] => applied'[u]
      /\ \A u \in Threads : flag'[u] \/ applied'[u] => flag[u] \/ applied[u]
  <2>1. CASE resized
    <3>1. applied' = [applied EXCEPT ![t] = TRUE] /\ flag' = [flag EXCEPT ![t] = FALSE] /\ flag[t]
      <4>1. (applied[t] \/ resized) = TRUE /\ (flag[t] /\ ~resized) = FALSE
        BY <2>1
      <4>. QED BY <1>1, <2>1, <4>1
    <3>. QED BY <3>1 DEF Inv, TypeOK
  <2>2. CASE ~resized
    <3>1. applied' = applied /\ flag' = flag
      <4>1. applied[t] \in BOOLEAN /\ flag[t] \in BOOLEAN
        BY DEF Inv, TypeOK
      <4>2. (applied[t] \/ resized) = applied[t] /\ (flag[t] /\ ~resized) = flag[t]
        BY <2>2, <4>1
      <4>3. applied' = [applied EXCEPT ![t] = applied[t]] /\ flag' = [flag EXCEPT ![t] = flag[t]]
        BY <1>1, <4>2
      <4>. QED BY <4>3 DEF Inv, TypeOK
    <3>. QED BY <3>1 DEF Inv, TypeOK
  <2>. QED BY <2>1, <2>2
<1>4. step' \in [Threads -> Nat \ {0}]
  BY <1>1 DEF Inv, TypeOK, Fits
<1>5. /\ fill' \in [Threads -> Nat]
      /\ \A u \in Threads : u # t => fill'[u] = fill[u]
  <2>1. CASE t \in Consumers
    <3>1. fill[t] \in Nat \ {0} /\ fill' = [fill EXCEPT ![t] = fill[t] - 1]
      BY <1>1, <2>1 DEF Inv, TypeOK, Reconfigure
    <3>. QED BY <3>1 DEF Inv, TypeOK
  <2>2. CASE t \notin Consumers
    BY <2>2 DEF Inv, TypeOK, Reconfigure
  <2>. QED BY <2>1, <2>2
<1>6. /\ pc' \in [Threads -> Label] /\ pc'[t] \in {"count", "ready"}
      /\ \A u \in Threads : u # t => pc'[u] = pc[u]
  BY DEF Inv, TypeOK, Reconfigure, Goto, Label
<1>7. /\ call' \in [Threads -> {"sync", "work"}] /\ \A u \in Threads : u # t => call'[u] = call[u]
      /\ \A c \in Consumers : call'[c] = "work" /\ (pc'[c] = "check" => fill'[c] # 0)
  <2>1. call' = [call EXCEPT ![t] = "work"] \/ call' = call
    BY Zenon DEF Reconfigure
  <2>2. /\ call' \in [Threads -> {"sync", "work"}]
        /\ \A u \in Threads : (u # t => call'[u] = call[u]) /\ (call[u] = "work" => call'[u] = "work")
    BY <2>1 DEF Inv, TypeOK
  <2>. QED BY <1>5, <1>6, <2>2 DEF Inv, TypeOK, Threads
<1>8. UNCHANGED <<counters, triggers, pushTimes, newStep, caller, old, todo>>
  BY DEF Reconfigure
<1>9. TypeOK'
  BY <1>3, <1>4, <1>5, <1>6, <1>7, <1>8 DEF Inv, TypeOK, counters, triggers, caller
<1>. QED BY <1>1, <1>3, <1>6, <1>7, <1>8, <1>9, QuietStep DEF Inv, AskedByTrigger, triggers, caller

LEMMA IgnorePhantomInv ==
    ASSUME Inv, NEW p \in Phantoms, IgnorePhantom(p)
    PROVE  Inv'
<1>1. p \in Threads /\ Answer(p, FALSE) /\ pc[p] = "count" /\ TypeOK
  BY DEF IgnorePhantom, Threads, Pushers, Inv
<1>2. /\ timing' \in [Pushers -> BOOLEAN] /\ phase' \in [Pushers -> {"first", "second"}]
      /\ timingWork' \in [Threads -> BOOLEAN]
      /\ pc' \in [Threads -> Label] /\ pc'[p] \in {"check", "ready"}
      /\ \A c \in Consumers : pc'[c] = "check" => pc[c] = "check"
      /\ \A u \in Threads : u # p => pc'[u] = pc[u]
      /\ \A q \in Pushers : phase[q] = "second" => phase'[q] = "second"
      /\ \A q \in Pushers : q # p => phase'[q] = phase[q]
  BY <1>1, AnswerType
<1>3. UNCHANGED <<counters, triggers, pushTimes, buffers, requests, call, old, todo>>
  BY DEF IgnorePhantom
<1>4. TypeOK'
  BY <1>1, <1>2, <1>3 DEF TypeOK, counters, triggers, buffers, requests
<1>. QED BY <1>1, <1>2, <1>3, <1>4, QuietStep DEF Inv, AskedByTrigger, triggers, buffers, requests

LEMMA PreparedInv ==
    ASSUME Inv, NEW t \in Threads, Prepared(t)
    PROVE  Inv'
<1>1. Answer(t, FALSE) /\ pc[t] = "prepare" /\ TypeOK
  BY DEF Prepared, Inv
<1>2. /\ timing' \in [Pushers -> BOOLEAN] /\ phase' \in [Pushers -> {"first", "second"}]
      /\ timingWork' \in [Threads -> BOOLEAN]
      /\ pc' \in [Threads -> Label] /\ pc'[t] \in {"check", "ready"}
      /\ \A c \in Consumers : pc'[c] = "check" => pc[c] = "check"
      /\ \A u \in Threads : u # t => pc'[u] = pc[u]
      /\ \A q \in Pushers : phase[q] = "second" => phase'[q] = "second"
      /\ \A q \in Pushers : q # t => phase'[q] = phase[q]
  BY <1>1, AnswerType
<1>3. UNCHANGED <<counters, triggers, pushTimes, buffers, requests, call, old, todo>>
  BY DEF Prepared
<1>4. TypeOK'
  BY <1>1, <1>2, <1>3 DEF TypeOK, counters, triggers, buffers, requests
<1>. QED BY <1>1, <1>2, <1>3, <1>4, QuietStep DEF Inv, AskedByTrigger, triggers, buffers, requests

LEMMA PrepareInv ==
    ASSUME Inv, NEW t \in Threads, NEW q \in Threads, Prepare(t, q)
    PROVE  Inv'
<1>1. /\ newStep' \in [Threads -> Nat] /\ flag' \in [Threads -> BOOLEAN]
      /\ todo' \in [Threads -> SUBSET Threads]
  BY ObserverSizes DEF Inv, TypeOK, Prepare
<1>2. /\ UNCHANGED <<counters, triggers, pushTimes, buffers, caller, call, old, pc>>
      /\ pc[t] = "prepare"
  BY DEF Prepare
<1>3. TypeOK'
  BY <1>1, <1>2 DEF Inv, TypeOK, counters, triggers, buffers, caller
<1>4. triggered
  BY <1>2 DEF Inv, AskedByTrigger
<1>. QED BY <1>2, <1>3, <1>4, QuietStep DEF Inv, AskedByTrigger, triggers, buffers, caller
---------------------------------------------------------------------------------
\* What a step of t between the fetch_add and the answer leaves to the others
Elsewhere(t) ==
    \A u \in Producers \cup Consumers :
        u # t => /\ pc'[u] = pc[u] /\ old'[u] = old[u]
                 /\ Second(u)' <=> Second(u)

LEMMA OthersKeep ==
    ASSUME TypeOK, NEW t \in Threads, UNCHANGED call,
           \A u \in Threads : u # t => pc'[u] = pc[u] /\ old'[u] = old[u],
           \A p \in Pushers : p # t => phase'[p] = phase[p]
    PROVE  Elsewhere(t)
<1> SUFFICES ASSUME NEW u \in Producers \cup Consumers, u # t
             PROVE  pc'[u] = pc[u] /\ old'[u] = old[u] /\ (Second(u)' <=> Second(u))
  BY DEF Elsewhere
<1>1. CASE u \in Consumers
  BY <1>1 DEF Second, TypeOK, Threads
<1>2. CASE u \in Producers
  BY <1>2 DEF Second, Threads, Pushers
<1>. QED BY <1>1, <1>2

LEMMA CountFirstInv ==
    ASSUME Inv, NEW t \in Producers \cup Consumers, CountFirst(t)
    PROVE  Inv'
<1>1. t \in Threads /\ TypeOK /\ pc[t] = "count" /\ ~Second(t)
  BY DEF Inv, Threads, Pushers, CountFirst
<1>2. /\ producerCount \in Nat /\ consumerCount \in Nat
      /\ MaxProducers \in Nat /\ MaxConsumers \in Nat
  BY <1>1, Maxima DEF TypeOK
<1>3. /\ producerCount' = IF t \in Producers THEN producerCount + 1 ELSE producerCount
      /\ consumerCount' = IF t \in Producers THEN consumerCount ELSE consumerCount + 1
      /\ secondCount' = secondCount
  BY DEF CountFirst
<1>4. old' = [old EXCEPT ![t] = Count(t)] /\ Count(t) \in Nat /\ old' \in [Threads -> Nat]
  BY <1>1, <1>2 DEF CountFirst, Count, TypeOK
<1>5. UNCHANGED <<triggers, pushTimes, buffers, requests, call, todo>>
  BY DEF CountFirst
<1>6. /\ timing' \in [Pushers -> BOOLEAN] /\ phase' \in [Pushers -> {"first", "second"}]
      /\ timingWork' \in [Threads -> BOOLEAN]
      /\ pc' \in [Threads -> Label]
      /\ \A c \in Consumers : pc'[c] = "check" => pc[c] = "check"
      /\ \A u \in Threads : u # t => pc'[u] = pc[u]
      /\ \A p \in Pushers : phase[p] = "second" => phase'[p] = "second"
      /\ \A p \in Pushers : p # t => phase'[p] = phase[p]
      /\ \/ Count(t) > Max(t) /\ pc'[t] \in {"check", "ready"}
         \/ ~(Count(t) > Max(t)) /\ pc'[t] = "record" /\ UNCHANGED caller
  <2>1. CASE Count(t) > Max(t)
    <3>1. Answer(t, FALSE)
      BY <2>1 DEF CountFirst
    <3>. QED BY <1>1, <2>1, <3>1, AnswerType
  <2>2. CASE ~(Count(t) > Max(t))
    <3>1. pc' = [pc EXCEPT ![t] = "record"] /\ UNCHANGED caller
      BY <2>2 DEF CountFirst, Goto
    <3>2. /\ pc' \in [Threads -> Label] /\ pc'[t] = "record"
          /\ \A u \in Threads : u # t => pc'[u] = pc[u]
      BY <1>1, <3>1 DEF TypeOK, Label
    <3>. QED BY <1>1, <2>2, <3>1, <3>2 DEF TypeOK, caller, Threads
  <2>. QED BY <2>1, <2>2
<1>7. Elsewhere(t)
  <2>1. \A u \in Threads : u # t => old'[u] = old[u]
    BY <1>1, <1>4 DEF TypeOK
  <2>. QED BY <1>1, <1>5, <1>6, <2>1, OthersKeep
<1>8. TypeOK'
  <2>1. producerCount' \in Nat /\ consumerCount' \in Nat /\ secondCount' \in Nat
    BY <1>1, <1>2, <1>3 DEF TypeOK
  <2>2. \A c \in Consumers : call'[c] = "work" /\ (pc'[c] = "check" => fill'[c] # 0)
    BY <1>1, <1>5, <1>6 DEF TypeOK, buffers
  <2>. QED BY <1>1, <1>4, <1>5, <1>6, <2>1, <2>2 DEF TypeOK, triggers, buffers, requests
<1>9. pc'[t] = "record" => ~Second(t)' /\ Count(t)' > old'[t] /\ (old'[t] = Count(t))
  <2>1. SUFFICES ASSUME pc'[t] = "record" PROVE ~Second(t)' /\ Count(t)' > old'[t] /\ old'[t] = Count(t)
    OBVIOUS
  <2>2. UNCHANGED caller
    BY <1>6, <2>1
  <2>3. ~Second(t)'
    BY <1>1, <1>5, <2>2 DEF Second, caller
  <2>4. old'[t] = Count(t)
    BY <1>1, <1>4 DEF TypeOK
  <2>5. Count(t)' = Count(t) + 1
    BY <1>2, <1>3 DEF Count
  <2>. QED BY <1>4, <2>3, <2>4, <2>5
<1>10. ReportsInFlight'
  <2>1. ASSUME NEW u \in Producers \cup Consumers
        PROVE  /\ pc'[u] = "record" => ~Second(u)' /\ Count(u)' > old'[u]
               /\ pc'[u] = "trigger" /\ ~Second(u)' => BothDone'
               /\ pc'[u] = "trigger" /\ Second(u)' => applied'[u]
    <3>1. CASE u = t
      BY <1>6, <1>9, <3>1
    <3>2. CASE u # t
      <4>1. pc'[u] = pc[u] /\ old'[u] = old[u] /\ (Second(u)' <=> Second(u))
        BY <1>7, <3>2 DEF Elsewhere
      <4>2. pc[u] = "record" => Count(u)' > old[u]
        <5>1. old[u] \in Nat
          BY <1>1 DEF TypeOK, Threads, Pushers
        <5>. QED BY <1>2, <1>3, <5>1 DEF Inv, ReportsInFlight, Count
      <4>3. BothDone => BothDone'
        BY <1>2, <1>3 DEF BothDone
      <4>4. applied' = applied
        BY <1>5 DEF buffers
      <4>. QED BY <4>1, <4>2, <4>3, <4>4 DEF Inv, ReportsInFlight
    <3>. QED BY <3>1, <3>2
  <2>. QED BY <2>1 DEF ReportsInFlight
<1>11. AskedByTrigger'
  BY <1>5, <1>6 DEF Inv, AskedByTrigger, triggers, buffers, requests
<1>12. EnoughReports'
  BY <1>2, <1>3, <1>5 DEF Inv, EnoughReports, triggers
<1>13. NoMissedTrigger'
  <2>1. SUFFICES ASSUME producerCount' > MaxProducers, consumerCount' > MaxConsumers, ~triggered
                 PROVE  \E u \in Producers \cup Consumers : Deciding(u)'
    BY <1>5 DEF NoMissedTrigger, triggers
  <2>2. CASE producerCount > MaxProducers /\ consumerCount > MaxConsumers
    <3>1. PICK u \in Producers \cup Consumers : Deciding(u)
      BY <2>1, <2>2 DEF Inv, NoMissedTrigger
    <3>2. u # t
      BY <1>1, <3>1 DEF Deciding
    <3>. QED BY <1>7, <3>1, <3>2 DEF Elsewhere, Deciding, Max
  <2>3. CASE ~(producerCount > MaxProducers /\ consumerCount > MaxConsumers)
    <3>1. Count(t) = Max(t)
      BY <1>2, <1>3, <2>1, <2>3 DEF Count, Max
    <3>2. pc'[t] = "record"
      BY <1>2, <1>4, <1>6, <3>1
    <3>. QED BY <1>9, <3>1, <3>2 DEF Deciding, Max
  <2>. QED BY <2>2, <2>3
<1>14. SecondPhaseFollowsFirst'
  BY <1>3, <1>5, <1>6 DEF Inv, SecondPhaseFollowsFirst, triggers, buffers, Pushers
<1>. QED BY <1>8, <1>10, <1>11, <1>12, <1>13, <1>14 DEF Inv

LEMMA RecordFirstInv ==
    ASSUME Inv, NEW t \in Producers \cup Consumers, RecordFirst(t)
    PROVE  Inv'
<1>1. t \in Threads /\ TypeOK /\ pc[t] = "record" /\ ~Second(t) /\ Count(t) > old[t]
  BY DEF Inv, ReportsInFlight, Threads, Pushers, RecordFirst
<1>2. /\ producerCount \in Nat /\ consumerCount \in Nat /\ old[t] \in Nat
      /\ MaxProducers \in Nat /\ MaxConsumers \in Nat
  BY <1>1, Maxima DEF TypeOK
<1>3. UNCHANGED <<counters, triggers, buffers, requests, call, old, todo>>
  BY DEF RecordFirst
<1>4. pushTimes' \in [Pushers -> BOOLEAN]
  BY <1>1 DEF RecordFirst, TypeOK
<1>5. /\ timing' \in [Pushers -> BOOLEAN] /\ phase' \in [Pushers -> {"first", "second"}]
      /\ timingWork' \in [Threads -> BOOLEAN]
      /\ pc' \in [Threads -> Label]
      /\ \A c \in Consumers : pc'[c] = "check" => pc[c] = "check"
      /\ \A u \in Threads : u # t => pc'[u] = pc[u]
      /\ \A p \in Pushers : phase[p] = "second" => phase'[p] = "second"
      /\ \A p \in Pushers : p # t => phase'[p] = phase[p]
      /\ \/ ~(old[t] = Max(t) /\ OtherDone(t)) /\ pc'[t] \in {"check", "ready"}
         \/ old[t] = Max(t) /\ OtherDone(t) /\ pc'[t] = "trigger" /\ UNCHANGED caller
  <2>1. CASE ~(old[t] = Max(t) /\ OtherDone(t))
    <3>1. Answer(t, TRUE)
      BY <2>1 DEF RecordFirst
    <3>. QED BY <1>1, <2>1, <3>1, AnswerType
  <2>2. CASE old[t] = Max(t) /\ OtherDone(t)
    <3>1. pc' = [pc EXCEPT ![t] = "trigger"] /\ UNCHANGED caller
      BY <2>2 DEF RecordFirst, Goto
    <3>2. /\ pc' \in [Threads -> Label] /\ pc'[t] = "trigger"
          /\ \A u \in Threads : u # t => pc'[u] = pc[u]
      BY <1>1, <3>1 DEF TypeOK, Label
    <3>. QED BY <1>1, <2>2, <3>1, <3>2 DEF TypeOK, caller, Threads
  <2>. QED BY <2>1, <2>2
<1>6. Elsewhere(t)
  BY <1>1, <1>3, <1>5, OthersKeep
<1>7. TypeOK'
  <2>1. \A c \in Consumers : call'[c] = "work" /\ (pc'[c] = "check" => fill'[c] # 0)
    BY <1>1, <1>3, <1>5 DEF TypeOK, buffers
  <2>. QED BY <1>1, <1>3, <1>4, <1>5, <2>1 DEF TypeOK, counters, triggers, buffers, requests
<1>8. old[t] = Max(t) /\ OtherDone(t) => BothDone
  BY <1>1, <1>2 DEF Count, Max, OtherDone, BothDone
<1>9. pc'[t] = "trigger" => ~Second(t)' /\ BothDone' /\ Deciding(t)'
  <2>1. SUFFICES ASSUME pc'[t] = "trigger" PROVE ~Second(t)' /\ BothDone' /\ Deciding(t)'
    OBVIOUS
  <2>2. UNCHANGED caller /\ old[t] = Max(t) /\ OtherDone(t)
    BY <1>5, <2>1
  <2>3. ~Second(t)'
    BY <1>1, <1>3, <2>2 DEF Second, caller
  <2>4. BothDone'
    BY <1>3, <1>8, <2>2 DEF BothDone, counters
  <2>5. old'[t] = Max(t)'
    BY <1>3, <2>2 DEF Max
  <2>. QED BY <2>1, <2>3, <2>4, <2>5 DEF Deciding
<1>10. ReportsInFlight'
  <2>1. ASSUME NEW u \in Producers \cup Consumers
        PROVE  /\ pc'[u] = "record" => ~Second(u)' /\ Count(u)' > old'[u]
               /\ pc'[u] = "trigger" /\ ~Second(u)' => BothDone'
               /\ pc'[u] = "trigger" /\ Second(u)' => applied'[u]
    <3>1. CASE u = t
      BY <1>5, <1>9, <3>1
    <3>2. CASE u # t
      <4>1. pc'[u] = pc[u] /\ old'[u] = old[u] /\ (Second(u)' <=> Second(u))
        BY <1>6, <3>2 DEF Elsewhere
      <4>2. Count(u)' = Count(u) /\ (BothDone => BothDone') /\ applied' = applied
        BY <1>3 DEF Count, BothDone, counters, buffers
      <4>. QED BY <4>1, <4>2 DEF Inv, ReportsInFlight
    <3>. QED BY <3>1, <3>2
  <2>. QED BY <2>1 DEF ReportsInFlight
<1>11. AskedByTrigger'
  BY <1>3, <1>5 DEF Inv, AskedByTrigger, triggers, buffers, requests
<1>12. EnoughReports'
  BY <1>3 DEF Inv, EnoughReports, triggers, counters
<1>13. NoMissedTrigger'
  <2>1. SUFFICES ASSUME producerCount > MaxProducers, consumerCount > MaxConsumers, ~triggered
                 PROVE  \E u \in Producers \cup Consumers : Deciding(u)'
    BY <1>3 DEF NoMissedTrigger, triggers, counters
  <2>2. PICK u \in Producers \cup Consumers : Deciding(u)
    BY <2>1 DEF Inv, NoMissedTrigger
  <2>3. CASE u = t
    <3>1. old[t] = Max(t) /\ OtherDone(t)
      BY <1>2, <2>1, <2>2, <2>3 DEF Deciding, OtherDone
    <3>. QED BY <1>5, <1>9, <3>1
  <2>4. CASE u # t
    BY <1>6, <2>2, <2>4 DEF Elsewhere, Deciding, Max
  <2>. QED BY <2>3, <2>4
<1>14. SecondPhaseFollowsFirst'
  BY <1>3, <1>5 DEF Inv, SecondPhaseFollowsFirst, triggers, buffers, counters, Pushers
<1>. QED BY <1>7, <1>10, <1>11, <1>12, <1>13, <1>14 DEF Inv

LEMMA CountSecondInv ==
    ASSUME Inv, NEW p \in Producers, CountSecond(p)
    PROVE  Inv'
<1>1. p \in Threads /\ p \in Pushers /\ TypeOK /\ pc[p] = "count" /\ Second(p)
  BY DEF Inv, Threads, Pushers, CountSecond
<1>2. UNCHANGED <<producerCount, consumerCount, triggers, pushTimes, buffers, requests, call, todo>>
  BY DEF CountSecond
<1>3. CASE ~applied[p]
  <2>1. Answer(p, TRUE) /\ secondCount' = secondCount /\ old' = old
    BY <1>3 DEF CountSecond
  <2>2. /\ timing' \in [Pushers -> BOOLEAN] /\ phase' \in [Pushers -> {"first", "second"}]
        /\ timingWork' \in [Threads -> BOOLEAN]
        /\ pc' \in [Threads -> Label] /\ pc'[p] \in {"check", "ready"}
        /\ \A c \in Consumers : pc'[c] = "check" => pc[c] = "check"
        /\ \A u \in Threads : u # p => pc'[u] = pc[u]
        /\ \A q \in Pushers : phase[q] = "second" => phase'[q] = "second"
        /\ \A q \in Pushers : q # p => phase'[q] = phase[q]
    BY <1>1, <2>1, AnswerType
  <2>3. TypeOK'
    BY <1>1, <1>2, <2>1, <2>2 DEF TypeOK, triggers, buffers, requests
  <2>. QED BY <1>1, <1>2, <2>1, <2>2, <2>3, QuietStep
       DEF Inv, AskedByTrigger, counters, triggers, buffers, requests
<1>4. CASE applied[p]
  <2>1. /\ old' = [old EXCEPT ![p] = secondCount] /\ secondCount' = secondCount + 1
        /\ secondCount \in Nat
    BY <1>1, <1>4 DEF CountSecond, TypeOK
  <2>2. /\ timing' \in [Pushers -> BOOLEAN] /\ phase' \in [Pushers -> {"first", "second"}]
        /\ timingWork' \in [Threads -> BOOLEAN]
        /\ pc' \in [Threads -> Label]
        /\ \A c \in Consumers : pc'[c] = "check" => pc[c] = "check"
        /\ \A u \in Threads : u # p => pc'[u] = pc[u]
        /\ \A q \in Pushers : phase[q] = "second" => phase'[q] = "second"
        /\ \A q \in Pushers : q # p => phase'[q] = phase[q]
        /\ \/ pc'[p] \in {"check", "ready"}
           \/ pc'[p] = "trigger" /\ UNCHANGED caller
    <3>1. CASE secondCount = MaxSecond
      <4>1. pc' = [pc EXCEPT ![p] = "trigger"] /\ UNCHANGED caller
        BY <1>4, <3>1 DEF CountSecond, Goto
      <4>2. /\ pc' \in [Threads -> Label] /\ pc'[p] = "trigger"
            /\ \A u \in Threads : u # p => pc'[u] = pc[u]
        BY <1>1, <4>1 DEF TypeOK, Label
      <4>. QED BY <1>1, <4>1, <4>2, ObserverThreads DEF TypeOK, caller, Threads
    <3>2. CASE secondCount # MaxSecond
      <4>1. Answer(p, secondCount < MaxSecond) /\ (secondCount < MaxSecond) \in BOOLEAN
        BY <1>4, <2>1, <3>2, Maxima DEF CountSecond
      <4>. QED BY <1>1, <4>1, AnswerType
    <3>. QED BY <3>1, <3>2
  <2>3. \A u \in Threads : u # p => old'[u] = old[u]
    BY <1>1, <2>1 DEF TypeOK
  <2>4. Elsewhere(p)
    BY <1>1, <1>2, <2>2, <2>3, OthersKeep
  <2>5. TypeOK'
    <3>1. secondCount' \in Nat /\ old' \in [Threads -> Nat]
      BY <1>1, <2>1 DEF TypeOK
    <3>2. \A c \in Consumers : call'[c] = "work" /\ (pc'[c] = "check" => fill'[c] # 0)
      BY <1>1, <1>2, <2>2 DEF TypeOK, buffers
    <3>. QED BY <1>1, <1>2, <2>2, <3>1, <3>2 DEF TypeOK, triggers, buffers, requests
  <2>6. pc'[p] = "trigger" => Second(p)' /\ applied'[p]
    BY <1>1, <1>2, <1>4, <2>2 DEF Second, caller, buffers
  <2>7. ReportsInFlight'
    <3>1. ASSUME NEW u \in Producers \cup Consumers
          PROVE  /\ pc'[u] = "record" => ~Second(u)' /\ Count(u)' > old'[u]
                 /\ pc'[u] = "trigger" /\ ~Second(u)' => BothDone'
                 /\ pc'[u] = "trigger" /\ Second(u)' => applied'[u]
      <4>1. CASE u = p
        BY <2>2, <2>6, <4>1
      <4>2. CASE u # p
        <5>1. pc'[u] = pc[u] /\ old'[u] = old[u] /\ (Second(u)' <=> Second(u))
          BY <2>4, <4>2 DEF Elsewhere
        <5>2. Count(u)' = Count(u) /\ (BothDone => BothDone') /\ applied' = applied
          BY <1>2 DEF Count, BothDone, buffers
        <5>. QED BY <5>1, <5>2 DEF Inv, ReportsInFlight
      <4>. QED BY <4>1, <4>2
    <3>. QED BY <3>1 DEF ReportsInFlight
  <2>8. AskedByTrigger'
    BY <1>2, <2>2 DEF Inv, AskedByTrigger, triggers, buffers, requests
  <2>9. EnoughReports'
    BY <1>2 DEF Inv, EnoughReports, triggers
  <2>10. NoMissedTrigger'
    <3>1. SUFFICES ASSUME producerCount > MaxProducers, consumerCount > MaxConsumers, ~triggered
                   PROVE  \E u \in Producers \cup Consumers : Deciding(u)'
      BY <1>2 DEF NoMissedTrigger, triggers
    <3>2. PICK u \in Producers \cup Consumers : Deciding(u)
      BY <3>1 DEF Inv, NoMissedTrigger
    <3>3. u # p
      BY <1>1, <3>2 DEF Deciding
    <3>. QED BY <2>4, <3>2, <3>3 DEF Elsewhere, Deciding, Max
  <2>11. SecondPhaseFollowsFirst'
    <3>1. triggered /\ phase[p] = "second"
      BY <1>1, <1>4 DEF Inv, AskedByTrigger, Second
    <3>2. triggered' /\ phase'[p] = "second" /\ applied'[p]
      BY <1>1, <1>2, <1>4, <2>2, <3>1 DEF triggers, buffers
    <3>. QED BY <3>2 DEF SecondPhaseFollowsFirst
  <2>. QED BY <2>5, <2>7, <2>8, <2>9, <2>10, <2>11 DEF Inv
<1>. QED BY <1>3, <1>4

LEMMA TriggerInv ==
    ASSUME Inv, NEW t \in Producers \cup Consumers, Trigger(t)
    PROVE  Inv'
<1> DEFINE done == IF Second(t) THEN triggeredTwice ELSE triggered
<1>1. t \in Threads /\ TypeOK /\ pc[t] = "trigger"
  BY DEF Inv, Threads, Pushers, Trigger
<1>2. UNCHANGED <<counters, pushTimes, buffers, requests, call, old>>
  BY DEF Trigger
<1>3. /\ triggered' \in BOOLEAN /\ triggeredTwice' \in BOOLEAN
      /\ triggered => triggered'
      /\ ~Second(t) => triggered'
      /\ Second(t) => triggered' = triggered
  BY <1>1 DEF Trigger, TypeOK
<1>4. /\ timing' \in [Pushers -> BOOLEAN] /\ phase' \in [Pushers -> {"first", "second"}]
      /\ timingWork' \in [Threads -> BOOLEAN]
      /\ pc' \in [Threads -> Label] /\ todo' \in [Threads -> SUBSET Threads]
      /\ pc'[t] \in {"check", "ready", "prepare"}
      /\ \A c \in Consumers : pc'[c] = "check" => pc[c] = "check"
      /\ \A u \in Threads : u # t => pc'[u] = pc[u]
      /\ \A p \in Pushers : phase[p] = "second" => phase'[p] = "second"
      /\ \A p \in Pushers : p # t => phase'[p] = phase[p]
  <2>1. CASE done
    <3>1. Answer(t, FALSE) /\ UNCHANGED todo
      BY <2>1 DEF Trigger
    <3>. QED BY <1>1, <3>1, AnswerType DEF TypeOK
  <2>2. CASE ~done
    <3>1. /\ pc' = [pc EXCEPT ![t] = "prepare"] /\ UNCHANGED caller
          /\ todo' = [todo EXCEPT ![t] = Threads]
      BY <2>2 DEF Trigger, Goto
    <3>2. /\ pc' \in [Threads -> Label] /\ pc'[t] = "prepare"
          /\ \A u \in Threads : u # t => pc'[u] = pc[u]
          /\ todo' \in [Threads -> SUBSET Threads]
      BY <1>1, <3>1 DEF TypeOK, Label
    <3>. QED BY <1>1, <3>1, <3>2 DEF TypeOK, caller, Threads
  <2>. QED BY <2>1, <2>2
<1>5. Elsewhere(t)
  BY <1>1, <1>2, <1>4, OthersKeep
<1>6. TypeOK'
  <2>1. \A c \in Consumers : call'[c] = "work" /\ (pc'[c] = "check" => fill'[c] # 0)
    BY <1>1, <1>2, <1>4 DEF TypeOK, buffers
  <2>. QED BY <1>1, <1>2, <1>3, <1>4, <2>1 DEF TypeOK, counters, buffers, requests
<1>7. triggered'
  <2>1. CASE Second(t)
    BY <1>1, <1>3, <2>1 DEF Inv, ReportsInFlight, AskedByTrigger
  <2>. QED BY <1>3, <2>1
<1>8. ReportsInFlight'
  <2>1. ASSUME NEW u \in Producers \cup Consumers
        PROVE  /\ pc'[u] = "record" => ~Second(u)' /\ Count(u)' > old'[u]
               /\ pc'[u] = "trigger" /\ ~Second(u)' => BothDone'
               /\ pc'[u] = "trigger" /\ Second(u)' => applied'[u]
    <3>1. CASE u = t
      BY <1>4, <3>1
    <3>2. CASE u # t
      <4>1. pc'[u] = pc[u] /\ old'[u] = old[u] /\ (Second(u)' <=> Second(u))
        BY <1>5, <3>2 DEF Elsewhere
      <4>2. Count(u)' = Count(u) /\ (BothDone => BothDone') /\ applied' = applied
        BY <1>2 DEF Count, BothDone, counters, buffers
      <4>. QED BY <4>1, <4>2 DEF Inv, ReportsInFlight
    <3>. QED BY <3>1, <3>2
  <2>. QED BY <2>1 DEF ReportsInFlight
<1>9. AskedByTrigger' /\ NoMissedTrigger'
  BY <1>7 DEF AskedByTrigger, NoMissedTrigger
<1>10. EnoughReports'
  <2>1. CASE Second(t)
    BY <1>2, <1>3, <2>1 DEF Inv, EnoughReports, counters
  <2>2. CASE ~Second(t)
    BY <1>1, <1>2, <2>2 DEF Inv, ReportsInFlight, BothDone, EnoughReports, counters
  <2>. QED BY <2>1, <2>2
<1>11. SecondPhaseFollowsFirst'
  BY <1>2, <1>4, <1>7 DEF Inv, SecondPhaseFollowsFirst, counters, buffers, Pushers
<1>. QED BY <1>6, <1>8, <1>9, <1>10, <1>11 DEF Inv

LEMMA NextInv == Inv /\ [Next]_vars => Inv'
<1> SUFFICES ASSUME Inv, [Next]_vars PROVE Inv'
  OBVIOUS
<1>1. ASSUME NEW t \in Producers \cup Consumers, Triggering(t) PROVE Inv'
  <2>1. t \in Threads
    BY DEF Threads, Pushers
  <2>. QED BY <1>1, <2>1, TriggerInv, PreparedInv, PrepareInv DEF Triggering
<1>2. ASSUME NEW p \in Producers, ProducerStep(p) PROVE Inv'
  <2>1. p \in Pushers /\ p \in Threads
    BY DEF Threads, Pushers
  <2>. QED BY <1>1, <1>2, <2>1, PushInv, ReconfigureInv, CountFirstInv, RecordFirstInv, CountSecondInv
       DEF ProducerStep
<1>3. ASSUME NEW p \in Phantoms, PhantomStep(p) PROVE Inv'
  <2>1. p \in Pushers /\ p \in Threads
    BY DEF Threads, Pushers
  <2>. QED BY <1>3, <2>1, PushInv, ReconfigureInv, IgnorePhantomInv DEF PhantomStep
<1>4. ASSUME NEW c \in Consumers, ConsumerStep(c) PROVE Inv'
  <2>1. c \in Threads
    BY DEF Threads
  <2>. QED BY <1>1, <1>4, <2>1, PopInv, ReconfigureInv, CountFirstInv, RecordFirstInv DEF ConsumerStep
<1>5. ASSUME UNCHANGED vars PROVE Inv'
  <2>1. UNCHANGED <<counters, triggers, pushTimes, buffers, requests, caller, call, old, todo, pc>>
    BY <1>5 DEF vars
  <2>2. TypeOK'
    BY <2>1 DEF Inv, TypeOK, counters, triggers, buffers, requests, caller
  <2>. QED BY <2>1, <2>2, QuietStep DEF Inv, AskedByTrigger, triggers, buffers, requests, caller
<1>. QED BY <1>2, <1>3, <1>4, <1>5 DEF Next

LEMMA InvHolds == Spec => []Inv
BY InitInv, NextInv, PTL DEF Spec

(***************************************************************************)
(* Every local queue keeps a positive step and a consumer pops what it     *)
(* holds, whatever steps the observer asks for.                            *)
(***************************************************************************)
THEOREM TypeCorrect == Spec => []TypeOK
<1>1. Inv => TypeOK
  BY DEF Inv
<1>. QED BY <1>1, InvHolds, PTL

(***************************************************************************)
(* No thread triggers the first reconfiguration before both sides have     *)
(* made the reports that are wanted.                                       *)
(***************************************************************************)
THEOREM TriggersAfterReports == Spec => []EnoughReports
<1>1. Inv => EnoughReports
  BY DEF Inv
<1>. QED BY <1>1, InvHolds, PTL

(***************************************************************************)
(* Nothing is counted in the second phase before the first reconfiguration *)
(* reached a producer.                                                     *)
(***************************************************************************)
THEOREM SecondAfterFirst == Spec => []SecondPhaseFollowsFirst
<1>1. Inv => SecondPhaseFollowsFirst
  BY DEF Inv
<1>. QED BY <1>1, InvHolds, PTL
---------------------------------------------------------------------------------
(***************************************************************************)
(* Why no two threads go through the queues for the same phase: one that   *)
(* does has changed the flag of the phase from false to true, and the flag *)
(* stays true; and whose phase it is, and that it does, only it can change.*)
(***************************************************************************)
Reporters == Producers \cup Consumers

Done(t) == IF Second(t) THEN triggeredTwice ELSE triggered

AskersTriggered == \A t \in Reporters : pc[t] = "prepare" => Done(t)

\* A step of t leaves the place and the phase of the others alone
OthersStay(t) ==
    \A u \in Reporters : u # t => pc'[u] = pc[u] /\ (Second(u)' <=> Second(u))

LEMMA OthersStayFact ==
    ASSUME TypeOK, NEW t \in Threads,
           \A u \in Threads : u # t => pc'[u] = pc[u] /\ call'[u] = call[u],
           \A p \in Pushers : p # t => phase'[p] = phase[p]
    PROVE  OthersStay(t)
<1> SUFFICES ASSUME NEW u \in Reporters, u # t
             PROVE  pc'[u] = pc[u] /\ (Second(u)' <=> Second(u))
  BY DEF OthersStay
<1>1. u \in Threads /\ pc'[u] = pc[u] /\ call'[u] = call[u]
  BY DEF Reporters, Threads, Pushers
<1>2. CASE u \in Consumers
  BY <1>1, <1>2 DEF Second, TypeOK
<1>3. CASE u \in Producers
  BY <1>1, <1>3 DEF Second, Pushers
<1>. QED BY <1>1, <1>2, <1>3 DEF Reporters

LEMMA LeavesAskers ==
    ASSUME AskersTriggered, OneAsks, NEW t, OthersStay(t), pc'[t] # "prepare",
           triggered => triggered', triggeredTwice => triggeredTwice'
    PROVE  AskersTriggered' /\ OneAsks'
<1>1. ASSUME NEW u \in Reporters, pc'[u] = "prepare"
      PROVE  u # t /\ pc[u] = "prepare" /\ (Second(u)' <=> Second(u))
  BY <1>1 DEF OthersStay
<1>2. AskersTriggered'
  BY <1>1 DEF AskersTriggered, Done
<1>3. OneAsks'
  BY <1>1 DEF OneAsks, Reporters
<1>. QED BY <1>2, <1>3

LEMMA TriggerAsks ==
    ASSUME TypeOK, AskersTriggered, OneAsks, NEW t \in Reporters, Trigger(t)
    PROVE  AskersTriggered' /\ OneAsks'
<1>1. t \in Threads /\ pc[t] = "trigger" /\ UNCHANGED call
  BY DEF Trigger, Reporters, Threads, Pushers
<1>2. triggered' = (triggered \/ ~Second(t)) /\ triggeredTwice' = (triggeredTwice \/ Second(t))
  BY DEF Trigger, TypeOK
<1>3. CASE Done(t)
  <2>1. Answer(t, FALSE)
    BY <1>3 DEF Trigger, Done
  <2>2. /\ pc'[t] \in {"check", "ready"}
        /\ \A u \in Threads : u # t => pc'[u] = pc[u]
        /\ \A p \in Pushers : p # t => phase'[p] = phase[p]
    BY <1>1, <2>1, AnswerType
  <2>3. OthersStay(t)
    BY <1>1, <2>2, OthersStayFact
  <2>. QED BY <1>2, <2>2, <2>3, LeavesAskers
<1>4. CASE ~Done(t)
  <2>1. pc' = [pc EXCEPT ![t] = "prepare"] /\ UNCHANGED <<phase, call>>
    BY <1>4 DEF Trigger, Done, Goto, caller
  <2>2. OthersStay(t) /\ (Second(t)' <=> Second(t))
    BY <1>1, <2>1, OthersStayFact DEF TypeOK, Second
  <2>3. Done(t)'
    BY <1>2, <2>2 DEF Done
  <2>4. ASSUME NEW u \in Reporters, u # t, pc'[u] = "prepare"
        PROVE  pc[u] = "prepare" /\ (Second(u)' <=> Second(u)) /\ Done(u)
    BY <2>2, <2>4 DEF OthersStay, AskersTriggered
  <2>5. ASSUME NEW u \in Reporters, u # t, pc'[u] = "prepare" PROVE ~(Second(u)' <=> Second(t)')
    BY <1>4, <2>2, <2>4, <2>5 DEF Done
  <2>6. AskersTriggered'
    BY <1>2, <2>3, <2>4 DEF AskersTriggered, Done
  <2>7. OneAsks'
    BY <2>2, <2>4, <2>5 DEF OneAsks, Reporters
  <2>. QED BY <2>6, <2>7
<1>. QED BY <1>3, <1>4

LEMMA NextAsks ==
    ASSUME Inv, AskersTriggered, OneAsks, [Next]_vars
    PROVE  AskersTriggered' /\ OneAsks'
<1>1. TypeOK
  BY DEF Inv
<1>2. ASSUME NEW t \in Threads, UNCHANGED triggers, pc[t] # "prepare" \/ Prepared(t),
             pc'[t] # "prepare",
             \A u \in Threads : u # t => pc'[u] = pc[u] /\ call'[u] = call[u],
             \A p \in Pushers : p # t => phase'[p] = phase[p]
      PROVE  AskersTriggered' /\ OneAsks'
  BY <1>1, <1>2, OthersStayFact, LeavesAskers DEF triggers
<1>3. ASSUME NEW p \in Pushers, GenericPush(p) PROVE AskersTriggered' /\ OneAsks'
  BY <1>1, <1>2, <1>3 DEF GenericPush, Goto, TypeOK, Threads, caller
<1>4. ASSUME NEW c \in Consumers, Pop(c) PROVE AskersTriggered' /\ OneAsks'
  BY <1>1, <1>2, <1>4 DEF Pop, Goto, TypeOK, Threads, caller
<1>5. ASSUME NEW t \in Threads, Reconfigure(t) PROVE AskersTriggered' /\ OneAsks'
  BY <1>1, <1>2, <1>5 DEF Reconfigure, Goto, TypeOK, caller
<1>6. ASSUME NEW t \in Threads, NEW b \in BOOLEAN, Answer(t, b), UNCHANGED <<triggers, call>>
      PROVE  AskersTriggered' /\ OneAsks'
  <2>1. /\ pc'[t] \in {"check", "ready"}
        /\ \A u \in Threads : u # t => pc'[u] = pc[u]
        /\ \A p \in Pushers : p # t => phase'[p] = phase[p]
    BY <1>1, <1>6, AnswerType
  <2>. QED BY <1>1, <1>6, <2>1, OthersStayFact, LeavesAskers DEF triggers
<1>7. ASSUME NEW t \in Threads, NEW l \in {"record", "trigger"}, Goto(t, l), pc[t] # "prepare",
             UNCHANGED <<triggers, caller, call>>
      PROVE  AskersTriggered' /\ OneAsks'
  BY <1>1, <1>2, <1>7 DEF Goto, TypeOK, caller
<1>8. ASSUME NEW p \in Phantoms, IgnorePhantom(p) PROVE AskersTriggered' /\ OneAsks'
  BY <1>6, <1>8 DEF IgnorePhantom, Threads, Pushers
<1>9. ASSUME NEW t \in Reporters, CountFirst(t) PROVE AskersTriggered' /\ OneAsks'
  BY <1>6, <1>7, <1>9 DEF CountFirst, Reporters, Threads, Pushers
<1>10. ASSUME NEW t \in Reporters, RecordFirst(t) PROVE AskersTriggered' /\ OneAsks'
  BY <1>6, <1>7, <1>10 DEF RecordFirst, Reporters, Threads, Pushers
<1>11. ASSUME NEW p \in Producers, CountSecond(p) PROVE AskersTriggered' /\ OneAsks'
  <2>1. p \in Threads /\ (secondCount < MaxSecond) \in BOOLEAN
    BY DEF Threads, Pushers
  <2>. QED BY <1>6, <1>7, <1>11, <2>1 DEF CountSecond
<1>12. ASSUME NEW t \in Reporters, Triggering(t) PROVE AskersTriggered' /\ OneAsks'
  <2>1. ASSUME NEW q \in Threads, Prepare(t, q) PROVE AskersTriggered' /\ OneAsks'
    BY <2>1 DEF Prepare, AskersTriggered, OneAsks, Done, Second, triggers, caller
  <2>2. CASE Prepared(t)
    BY <1>6, <2>2 DEF Prepared, Reporters, Threads, Pushers
  <2>. QED BY <1>1, <1>12, <2>1, <2>2, TriggerAsks DEF Triggering
<1>13. CASE UNCHANGED vars
  BY <1>13 DEF vars, AskersTriggered, OneAsks, Done, Second, triggers, caller
<1>14. ASSUME NEW p \in Producers, ProducerStep(p) PROVE AskersTriggered' /\ OneAsks'
  BY <1>3, <1>5, <1>9, <1>10, <1>11, <1>12, <1>14 DEF ProducerStep, Reporters, Threads, Pushers
<1>15. ASSUME NEW p \in Phantoms, PhantomStep(p) PROVE AskersTriggered' /\ OneAsks'
  BY <1>3, <1>5, <1>8, <1>15 DEF PhantomStep, Threads, Pushers
<1>16. ASSUME NEW c \in Consumers, ConsumerStep(c) PROVE AskersTriggered' /\ OneAsks'
  BY <1>4, <1>5, <1>9, <1>10, <1>12, <1>16 DEF ConsumerStep, Reporters, Threads
<1>. QED BY <1>13, <1>14, <1>15, <1>16 DEF Next

(***************************************************************************)
(* Of the threads that make the last report of each side, one sees the     *)
(* other side done: two fetch_adds and two loads without a lock suffice.   *)
(* If both do, the compare_exchange lets one of them ask the queues.       *)
(***************************************************************************)
THEOREM AlwaysTriggeredOnce == Spec => []TriggeredOnce
<1>1. Init => AskersTriggered /\ OneAsks
  BY DEF Init, AskersTriggered, OneAsks, Reporters, Threads, Pushers
<1>2. Inv /\ AskersTriggered /\ OneAsks /\ [Next]_vars => AskersTriggered' /\ OneAsks'
  BY NextAsks
<1>3. Inv /\ OneAsks => TriggeredOnce
  BY DEF Inv, TriggeredOnce
<1>. QED BY <1>1, <1>2, <1>3, InvHolds, PTL DEF Spec
---------------------------------------------------------------------------------
(***************************************************************************)
(* Why a push time is known at the trigger.  Before a producer has timed a *)
(* push it makes one report of its work for each element it puts into its  *)
(* local buffer, up to the push that fills it: InitStep reports, whether   *)
(* counted or, Reports(p) of them at most, already made.                   *)
(***************************************************************************)
Reports(p) ==
    IF call[p] = "sync" THEN IF pc[p] = "count" THEN InitStep - 1 ELSE InitStep
    ELSE IF pc[p] \in {"check", "count"} THEN fill[p] - 1 ELSE fill[p]

\* The reports made: r[p] of producer p
Made(r) == {x \in Producers \X (1..InitStep) : x[2] <= r[x[1]]}

NotFilled(p) ==
    /\ timing[p] /\ phase[p] = "first"
    /\ pc[p] \in {"ready", "check", "count", "record"}
    /\ call[p] = "work" => fill[p] < InitStep /\ (pc[p] # "ready" => fill[p] > 0)
    /\ call[p] = "sync" => pc[p] \in {"count", "record"}

NothingTimed == \A p \in Producers : ~pushTimes[p]

StepsAtFirst == ~triggered => \A t \in Threads : step[t] = InitStep

ReportsCounted ==
    NothingTimed =>
        /\ ~triggered
        /\ \A p \in Producers : NotFilled(p)
        /\ producerCount <= Cardinality(Made([p \in Producers |-> Reports(p)]))

TimedFirst == StepsAtFirst /\ ReportsCounted

LEMMA ReportsFit ==
    ASSUME InitStep < 2 * FirstN, Producers # {}, NEW r
    PROVE  /\ IsFiniteSet(Made(r))
           /\ Cardinality(Made(r)) \in Nat
           /\ Cardinality(Made(r)) < MaxProducers
<1> DEFINE all == Producers \X (1..InitStep)
<1>1. IsFiniteSet(Producers) /\ Cardinality(Producers) \in Nat \ {0}
  BY ObserverThreads, FS_Subset, FS_CardinalityType, FS_EmptySet DEF Threads, Pushers
<1>2. IsFiniteSet(1..InitStep) /\ Cardinality(1..InitStep) = InitStep
  BY FS_Interval, ObserverSizes
<1>3. IsFiniteSet(all) /\ Cardinality(all) = Cardinality(Producers) * InitStep
  BY <1>1, <1>2, FS_Product
<1>4. /\ IsFiniteSet(Made(r)) /\ Cardinality(Made(r)) \in Nat
      /\ Cardinality(Made(r)) <= Cardinality(Producers) * InitStep
  <2>1. Made(r) \subseteq all
    BY DEF Made
  <2>. QED BY <2>1, <1>3, FS_Subset, FS_CardinalityType
<1>5. \A a, b \in Nat, c \in Nat \ {0} : a < b => c * a < c * b
  OBVIOUS
<1>6. Cardinality(Producers) * InitStep < Cardinality(Producers) * (2 * FirstN)
  BY <1>1, <1>5, ObserverSizes
<1>7. MaxProducers = Cardinality(Producers) * (2 * FirstN)
  BY <1>1, ObserverSizes DEF MaxProducers
<1>8. Cardinality(Producers) * InitStep \in Nat /\ MaxProducers \in Nat
  BY <1>1, ObserverSizes, Maxima
<1>. QED BY <1>4, <1>6, <1>7, <1>8

LEMMA MadeGrows ==
    ASSUME InitStep < 2 * FirstN, Producers # {}, NEW r \in [Producers -> Int],
           NEW s \in [Producers -> Int], \A p \in Producers : r[p] <= s[p]
    PROVE  Cardinality(Made(r)) <= Cardinality(Made(s))
<1>1. Made(r) \subseteq Made(s)
  BY DEF Made
<1>. QED BY <1>1, ReportsFit, FS_Subset

\* One more report of p counts
LEMMA OneMoreMade ==
    ASSUME InitStep < 2 * FirstN, Producers # {}, NEW r \in [Producers -> Int],
           NEW s \in [Producers -> Int], \A p \in Producers : r[p] <= s[p],
           NEW q \in Producers, r[q] \in 0..InitStep-1, s[q] = r[q] + 1
    PROVE  Cardinality(Made(r)) + 1 <= Cardinality(Made(s))
<1> DEFINE x == <<q, r[q] + 1>>
<1>1. x \in Made(s) /\ x \notin Made(r)
  BY ObserverSizes DEF Made
<1>2. Made(r) \cup {x} \subseteq Made(s)
  BY <1>1 DEF Made
<1>3. /\ IsFiniteSet(Made(r) \cup {x})
      /\ Cardinality(Made(r) \cup {x}) = Cardinality(Made(r)) + 1
  BY <1>1, ReportsFit, FS_AddElement
<1>. QED BY <1>2, <1>3, ReportsFit, FS_Subset

LEMMA InitTimedFirst ==
    ASSUME InitStep < 2 * FirstN, Producers # {}, Init
    PROVE  TimedFirst
<1>1. \A p \in Producers : NotFilled(p)
  BY ObserverSizes DEF Init, NotFilled, Threads, Pushers
<1>2. producerCount <= Cardinality(Made([p \in Producers |-> Reports(p)]))
  BY ReportsFit DEF Init
<1>. QED BY <1>1, <1>2 DEF Init, TimedFirst, StepsAtFirst, ReportsCounted

(***************************************************************************)
(* While no push is timed, the producers have made too few reports for a   *)
(* trigger: none of the threads triggers, and no queue is asked.           *)
(***************************************************************************)
LEMMA NotTriggering ==
    ASSUME InitStep < 2 * FirstN, Producers # {}, Inv, TimedFirst, NothingTimed
    PROVE  /\ ~triggered /\ producerCount < MaxProducers
           /\ producerCount <= Cardinality(Made([p \in Producers |-> Reports(p)]))
           /\ \A t \in Threads : step[t] = InitStep /\ ~flag[t] /\ ~applied[t]
           /\ \A t \in Producers \cup Consumers : pc[t] \notin {"trigger", "prepare"}
           /\ \A p \in Producers : NotFilled(p)
           /\ [p \in Producers |-> Reports(p)] \in [Producers -> Int]
<1>1. /\ ~triggered
      /\ producerCount <= Cardinality(Made([p \in Producers |-> Reports(p)]))
      /\ \A t \in Threads : step[t] = InitStep
      /\ \A p \in Producers : NotFilled(p)
  BY DEF TimedFirst, StepsAtFirst, ReportsCounted
<1>2. producerCount < MaxProducers
  BY <1>1, ReportsFit, Maxima DEF Inv, TypeOK
<1>3. \A t \in Threads : ~flag[t] /\ ~applied[t] /\ pc[t] # "prepare"
  BY <1>1 DEF Inv, AskedByTrigger
<1>4. ASSUME NEW t \in Producers \cup Consumers, pc[t] = "trigger" PROVE FALSE
  <2>1. CASE t \in Producers
    BY <1>1, <1>4, <2>1 DEF NotFilled
  <2>2. CASE t \in Consumers
    <3>1. ~Second(t)
      BY <2>2 DEF Inv, TypeOK, Second
    <3>. QED BY <1>2, <1>4, <3>1, Maxima DEF Inv, TypeOK, ReportsInFlight, BothDone
  <2>. QED BY <2>1, <2>2
<1>5. \A p \in Producers : Reports(p) \in Int
  BY ObserverSizes DEF Inv, TypeOK, Reports, Threads, Pushers
<1>6. \A t \in Producers \cup Consumers : t \in Threads
  BY DEF Threads, Pushers
<1>. QED BY <1>1, <1>2, <1>3, <1>4, <1>5, <1>6

\* What is left to prove of a step
LEMMA TimedFirstStep ==
    ASSUME InitStep < 2 * FirstN, Producers # {}, Inv, TimedFirst, TypeOK',
           triggered => triggered',
           \A p \in Pushers : pushTimes[p] => pushTimes'[p],
           ~triggered => \A t \in Threads : step'[t] = step[t],
           NothingTimed' =>
               /\ triggered' = triggered
               /\ \A p \in Producers : NotFilled(p)'
               /\ \A p \in Producers : Reports(p)' >= Reports(p)
               /\ \/ producerCount' = producerCount
                  \/ /\ producerCount' = producerCount + 1
                     /\ \E q \in Producers : /\ Reports(q) \in 0..InitStep-1
                                             /\ Reports(q)' = Reports(q) + 1
    PROVE  TimedFirst'
<1>1. StepsAtFirst'
  BY DEF TimedFirst, StepsAtFirst
<1>2. ReportsCounted'
  <2> DEFINE r == [p \in Producers |-> Reports(p)]
             s == [p \in Producers |-> Reports(p)']
  <2>1. SUFFICES ASSUME NothingTimed'
                 PROVE  ~triggered' /\ (\A p \in Producers : NotFilled(p)')
                        /\ producerCount' <= Cardinality(Made(s))
    BY DEF ReportsCounted, Made
  <2>2. NothingTimed
    BY <2>1 DEF NothingTimed, Inv, TypeOK, Pushers
  <2>3. ~triggered /\ producerCount <= Cardinality(Made(r)) /\ r \in [Producers -> Int]
    BY <2>2, NotTriggering
  <2>4. s \in [Producers -> Int] /\ \A p \in Producers : r[p] <= s[p]
    <3>1. \A p \in Producers : Reports(p)' \in Int /\ Reports(p) \in Int
      BY ObserverSizes DEF Inv, TypeOK, Reports, Threads, Pushers
    <3>. QED BY <2>1, <3>1
  <2>5. /\ Cardinality(Made(r)) \in Nat /\ Cardinality(Made(s)) \in Nat
        /\ producerCount \in Nat
    BY ReportsFit DEF Inv, TypeOK
  <2>6. CASE producerCount' = producerCount
    <3>1. Cardinality(Made(r)) <= Cardinality(Made(s))
      BY <2>3, <2>4, MadeGrows
    <3>. QED BY <2>1, <2>3, <2>5, <2>6, <3>1
  <2>7. CASE /\ producerCount' = producerCount + 1
             /\ \E q \in Producers : /\ Reports(q) \in 0..InitStep-1
                                     /\ Reports(q)' = Reports(q) + 1
    <3>1. PICK q \in Producers : /\ Reports(q) \in 0..InitStep-1
                                 /\ Reports(q)' = Reports(q) + 1
      BY <2>7
    <3>2. r[q] \in 0..InitStep-1 /\ s[q] = r[q] + 1
      BY <3>1
    <3>3. Cardinality(Made(r)) + 1 <= Cardinality(Made(s))
      BY <2>3, <2>4, <3>2, OneMoreMade
    <3>. QED BY <2>1, <2>3, <2>5, <2>7, <3>3
  <2>. QED BY <2>1, <2>6, <2>7
<1>. QED BY <1>1, <1>2 DEF TimedFirst

\* A step that no producer takes leaves their reports alone.
LEMMA ElsewhereTimed ==
    ASSUME InitStep < 2 * FirstN, Producers # {}, Inv, TimedFirst, TypeOK',
           triggered => triggered', pushTimes' = pushTimes,
           ~triggered => \A t \in Threads : step'[t] = step[t],
           NothingTimed => triggered' = triggered,
           producerCount' = producerCount,
           \A p \in Producers : /\ call'[p] = call[p] /\ pc'[p] = pc[p] /\ fill'[p] = fill[p]
                                 /\ timing'[p] = timing[p] /\ phase'[p] = phase[p]
    PROVE  TimedFirst'
<1>1. NothingTimed' <=> NothingTimed
  BY DEF NothingTimed
<1>2. \A p \in Producers : Reports(p)' = Reports(p) /\ Reports(p) \in Int
  BY ObserverSizes DEF Reports, Inv, TypeOK, Threads, Pushers
<1>3. NothingTimed => \A p \in Producers : NotFilled(p)'
  BY NotTriggering DEF NotFilled
<1>. QED BY <1>1, <1>2, <1>3, TimedFirstStep

LEMMA PushTimed ==
    ASSUME InitStep < 2 * FirstN, Producers # {}, Inv, TimedFirst, Inv',
           NEW p \in Pushers, GenericPush(p)
    PROVE  TimedFirst'
<1>1. /\ UNCHANGED <<counters, triggers, pushTimes, step, applied, requests, caller, old, todo>>
      /\ pc[p] = "ready" /\ p \in Threads
  BY DEF GenericPush, Threads
<1>2. \A u \in Threads : u # p => call'[u] = call[u] /\ pc'[u] = pc[u] /\ fill'[u] = fill[u]
  BY DEF GenericPush, Goto, Inv, TypeOK
<1>3. TypeOK'
  BY DEF Inv
<1>4. CASE p \notin Producers
  <2>1. \A q \in Producers : q \in Threads /\ q # p
    BY <1>4 DEF Threads, Pushers
  <2>. QED BY <1>1, <1>2, <1>3, <2>1, ElsewhereTimed DEF counters, triggers, caller
<1>5. CASE p \in Producers
  <2>1. ASSUME NothingTimed'
        PROVE  /\ \A q \in Producers : NotFilled(q)'
               /\ \A q \in Producers : Reports(q)' >= Reports(q)
    <3>1. NothingTimed
      BY <1>1, <2>1 DEF NothingTimed
    <3>2. step[p] = InitStep /\ \A q \in Producers : NotFilled(q)
      BY <1>1, <3>1, NotTriggering
    <3>3. timing[p] /\ phase[p] = "first" /\ call[p] = "work" /\ fill[p] \in 0..InitStep-1
      BY <1>1, <1>5, <3>2, ObserverSizes DEF NotFilled, Inv, TypeOK
    <3>4. timing'[p] /\ phase'[p] = "first"
      BY <1>1, <3>3 DEF caller
    <3>5. CASE fill[p] + 1 < InitStep
      <4>1. fill'[p] = fill[p] + 1 /\ pc'[p] = "check" /\ call'[p] = "work"
        BY <1>1, <3>2, <3>3, <3>5, ObserverSizes DEF GenericPush, Goto, Inv, TypeOK
      <4>2. NotFilled(p)' /\ Reports(p)' = Reports(p) /\ Reports(p) \in Int
        BY <1>1, <3>3, <3>4, <3>5, <4>1 DEF NotFilled, Reports
      <4>. QED BY <1>1, <1>2, <3>2, <4>2, ObserverSizes
           DEF NotFilled, Reports, caller, Inv, TypeOK, Threads, Pushers
    <3>6. CASE fill[p] + 1 >= InitStep
      <4>1. pc'[p] = "count" /\ call'[p] = "sync"
        BY <1>1, <3>2, <3>3, <3>6, ObserverSizes DEF GenericPush, Goto, Inv, TypeOK
      <4>2. NotFilled(p)' /\ Reports(p)' = Reports(p) /\ Reports(p) \in Int
        BY <1>1, <3>3, <3>4, <3>6, <4>1, ObserverSizes DEF NotFilled, Reports
      <4>. QED BY <1>1, <1>2, <3>2, <4>2, ObserverSizes
           DEF NotFilled, Reports, caller, Inv, TypeOK, Threads, Pushers
    <3>. QED BY <3>3, <3>5, <3>6, ObserverSizes
  <2>. QED BY <1>1, <1>3, <2>1, TimedFirstStep DEF counters, triggers
<1>. QED BY <1>4, <1>5

LEMMA ReconfigureTimed ==
    ASSUME InitStep < 2 * FirstN, Producers # {}, Inv, TimedFirst, Inv',
           NEW t \in Threads, Reconfigure(t)
    PROVE  TimedFirst'
<1>1. UNCHANGED <<counters, triggers, pushTimes, newStep, caller, old, todo>> /\ pc[t] = "check"
  BY DEF Reconfigure
<1>2. TypeOK /\ TypeOK'
  BY DEF Inv
<1>3. ~triggered => \A u \in Threads : step'[u] = step[u]
  <2>1. ~triggered => ~flag[t]
    BY DEF Inv, AskedByTrigger
  <2>. QED BY <1>2, <2>1 DEF Reconfigure, TypeOK
<1>4. \A u \in Threads : u # t => call'[u] = call[u] /\ pc'[u] = pc[u] /\ fill'[u] = fill[u]
  BY <1>2 DEF Reconfigure, Goto, TypeOK
<1>5. CASE t \notin Producers
  <2>1. \A q \in Producers : q \in Threads /\ q # t
    BY <1>5 DEF Threads, Pushers
  <2>. QED BY <1>1, <1>2, <1>3, <1>4, <2>1, ElsewhereTimed DEF counters, triggers, caller
<1>6. CASE t \in Producers
  <2>1. ASSUME NothingTimed'
        PROVE  /\ \A q \in Producers : NotFilled(q)'
               /\ \A q \in Producers : Reports(q)' >= Reports(q)
    <3>1. NothingTimed
      BY <1>1, <2>1 DEF NothingTimed
    <3>2. \A q \in Producers : NotFilled(q)
      BY <3>1, NotTriggering
    <3>3. timing[t] /\ phase[t] = "first" /\ call[t] = "work" /\ fill[t] \in 1..InitStep-1
      BY <1>1, <1>2, <1>6, <3>2, ObserverSizes DEF NotFilled, TypeOK
    <3>4. timing'[t] /\ phase'[t] = "first"
      BY <1>1, <3>3 DEF caller
    <3>5. t \notin Consumers /\ fill'[t] = fill[t]
      BY <1>2, <1>6, ObserverThreads DEF Reconfigure, TypeOK
    <3>6. pc'[t] \in {"count", "ready"} /\ call'[t] = "work"
      <4>1. (pc' = [pc EXCEPT ![t] = "count"] /\ call' = [call EXCEPT ![t] = "work"])
            \/ (pc' = [pc EXCEPT ![t] = "ready"] /\ call' = call)
        BY Zenon DEF Reconfigure, Goto
      <4>. QED BY <1>2, <3>3, <4>1 DEF TypeOK
    <3>7. NotFilled(t)' /\ Reports(t)' >= Reports(t)
      BY <1>1, <3>3, <3>4, <3>5, <3>6, ObserverSizes DEF NotFilled, Reports
    <3>. QED BY <1>1, <1>2, <1>4, <3>2, <3>7, ObserverSizes
         DEF NotFilled, Reports, caller, TypeOK, Threads, Pushers
  <2>. QED BY <1>1, <1>2, <1>3, <2>1, TimedFirstStep DEF counters, triggers
<1>. QED BY <1>5, <1>6

\* The count of a report that the observer does not refuse
LEMMA CountFirstTimed ==
    ASSUME InitStep < 2 * FirstN, Producers # {}, Inv, TimedFirst, Inv',
           NEW t \in Producers \cup Consumers, CountFirst(t)
    PROVE  TimedFirst'
<1>1. UNCHANGED <<secondCount, triggers, pushTimes, buffers, requests, call, todo>> /\ pc[t] = "count"
  BY DEF CountFirst
<1>2. TypeOK /\ TypeOK' /\ t \in Threads
  BY DEF Inv, Threads, Pushers
<1>3. CASE t \notin Producers
  <2>1. \A q \in Producers : q \in Threads /\ q # t /\ q \in Pushers
    BY <1>3 DEF Threads, Pushers
  <2>2. \A q \in Producers : pc'[q] = pc[q] /\ timing'[q] = timing[q] /\ phase'[q] = phase[q]
    <3>1. call[t] = "work"
      BY <1>2, <1>3 DEF TypeOK
    <3>2. (\E l \in Label : pc' = [pc EXCEPT ![t] = l]) /\ timing' = timing /\ phase' = phase
      BY <3>1 DEF CountFirst, Answer, Goto, Label, caller
    <3>. QED BY <1>2, <2>1, <3>2 DEF TypeOK
  <2>3. producerCount' = producerCount
    BY <1>3 DEF CountFirst
  <2>. QED BY <1>1, <1>2, <2>1, <2>2, <2>3, ElsewhereTimed DEF triggers, buffers
<1>4. CASE t \in Producers
  <2>1. ASSUME NothingTimed'
        PROVE  /\ \A q \in Producers : NotFilled(q)'
               /\ \A q \in Producers : Reports(q)' >= Reports(q)
               /\ Reports(t) \in 0..InitStep-1 /\ Reports(t)' = Reports(t) + 1
               /\ producerCount' = producerCount + 1
    <3>1. NothingTimed
      BY <1>1, <2>1 DEF NothingTimed
    <3>2. producerCount < MaxProducers /\ \A q \in Producers : NotFilled(q)
      BY <3>1, NotTriggering
    <3>3. pc' = [pc EXCEPT ![t] = "record"] /\ UNCHANGED caller
      <4>1. ~(Count(t) > Max(t))
        BY <1>2, <1>4, <3>2, Maxima DEF Count, Max, TypeOK
      <4>. QED BY <4>1 DEF CountFirst, Goto
    <3>4. pc'[t] = "record" /\ \A u \in Threads : u # t => pc'[u] = pc[u]
      BY <1>2, <3>3 DEF TypeOK
    <3>5. /\ NotFilled(t)'
          /\ Reports(t) \in 0..InitStep-1 /\ Reports(t)' = Reports(t) + 1
      <4>1. CASE call[t] = "sync"
        BY <1>1, <1>4, <3>2, <3>3, <3>4, <4>1, ObserverSizes
        DEF NotFilled, Reports, caller, buffers
      <4>2. CASE call[t] = "work"
        <5>1. fill[t] \in 1..InitStep-1
          BY <1>1, <1>2, <1>4, <3>2, <4>2, ObserverSizes DEF NotFilled, TypeOK
        <5>. QED BY <1>1, <1>4, <3>2, <3>3, <3>4, <4>2, <5>1, ObserverSizes
             DEF NotFilled, Reports, caller, buffers
      <4>. QED BY <1>2, <4>1, <4>2 DEF TypeOK
    <3>6. producerCount' = producerCount + 1
      BY <1>4 DEF CountFirst
    <3>. QED BY <1>1, <1>2, <3>2, <3>3, <3>4, <3>5, <3>6, ObserverSizes
         DEF NotFilled, Reports, caller, buffers, TypeOK, Threads, Pushers
  <2>. QED BY <1>1, <1>2, <1>4, <2>1, TimedFirstStep DEF triggers, buffers
<1>. QED BY <1>3, <1>4

\* A report of a synchronization is a push time; none of the others triggers.
LEMMA RecordFirstTimed ==
    ASSUME InitStep < 2 * FirstN, Producers # {}, Inv, TimedFirst, Inv',
           NEW t \in Producers \cup Consumers, RecordFirst(t)
    PROVE  TimedFirst'
<1>1. UNCHANGED <<counters, triggers, buffers, requests, call, old, todo>> /\ pc[t] = "record"
  BY DEF RecordFirst
<1>2. TypeOK /\ TypeOK' /\ t \in Threads
  BY DEF Inv, Threads, Pushers
<1>3. CASE call[t] = "sync"
  <2>1. t \in Producers /\ t \in Pushers
    BY <1>2, <1>3 DEF TypeOK, Pushers
  <2>2. pushTimes' = [pushTimes EXCEPT ![t] = TRUE]
    BY <1>3 DEF RecordFirst
  <2>3. ~NothingTimed' /\ \A p \in Pushers : pushTimes[p] => pushTimes'[p]
    BY <1>2, <2>1, <2>2 DEF NothingTimed, TypeOK
  <2>. QED BY <1>1, <1>2, <2>3, TimedFirstStep DEF triggers, buffers
<1>4. CASE call[t] # "sync"
  <2>1. pushTimes' = pushTimes /\ timing' = timing /\ phase' = phase
    BY <1>4 DEF RecordFirst, Answer, caller
  <2>2. (\E l \in Label : pc' = [pc EXCEPT ![t] = l])
    BY DEF RecordFirst, Answer, Goto, Label
  <2>3. \A u \in Threads : u # t => pc'[u] = pc[u]
    BY <1>2, <2>2 DEF TypeOK
  <2>4. ASSUME NothingTimed'
        PROVE  /\ \A q \in Producers : NotFilled(q)'
               /\ \A q \in Producers : Reports(q)' >= Reports(q)
    <3>1. NothingTimed
      BY <2>1, <2>4 DEF NothingTimed
    <3>2. producerCount < MaxProducers /\ \A q \in Producers : NotFilled(q)
      BY <3>1, NotTriggering
    <3>3. \A q \in Producers : q # t => NotFilled(q)' /\ Reports(q)' >= Reports(q)
      BY <1>1, <1>2, <2>1, <2>3, <3>2, ObserverSizes
      DEF NotFilled, Reports, buffers, TypeOK, Threads, Pushers
    <3>4. CASE t \in Producers
      <4>1. ~(old[t] = Max(t) /\ OtherDone(t))
        BY <1>1, <1>2, <3>2, <3>4, Maxima DEF Inv, ReportsInFlight, Count, Max, TypeOK
      <4>2. pc' = [pc EXCEPT ![t] = "ready"]
        BY <1>4, <4>1 DEF RecordFirst, Answer, Goto
      <4>3. pc'[t] = "ready" /\ call'[t] = "work" /\ call[t] = "work"
        BY <1>1, <1>2, <1>4, <4>2 DEF TypeOK
      <4>4. NotFilled(t)' /\ Reports(t)' >= Reports(t)
        BY <1>1, <1>2, <2>1, <3>2, <3>4, <4>3, ObserverSizes DEF NotFilled, Reports, buffers, TypeOK
      <4>. QED BY <3>3, <4>4
    <3>. QED BY <3>3, <3>4
  <2>. QED BY <1>1, <1>2, <2>1, <2>4, TimedFirstStep DEF counters, triggers, buffers
<1>. QED BY <1>3, <1>4

\* The actions that only follow a trigger, or a report of the second phase
LEMMA LaterTimed ==
    ASSUME InitStep < 2 * FirstN, Producers # {}, Inv, TimedFirst, Inv',
           NEW t \in Producers \cup Consumers,
           Triggering(t) \/ (t \in Producers /\ CountSecond(t))
    PROVE  TimedFirst'
<1>1. TypeOK' /\ TypeOK
  BY DEF Inv
<1>2. /\ pushTimes' = pushTimes /\ UNCHANGED buffers
      /\ pc[t] \in {"trigger", "prepare"} \/ (t \in Producers /\ Second(t))
  BY DEF Triggering, Trigger, Prepared, Prepare, CountSecond
<1>3. triggered => triggered'
  BY <1>1 DEF Triggering, Trigger, Prepared, Prepare, CountSecond, triggers, TypeOK
<1>4. ~NothingTimed'
  <2>1. SUFFICES ASSUME NothingTimed PROVE FALSE
    BY <1>2 DEF NothingTimed
  <2>2. pc[t] \notin {"trigger", "prepare"} /\ \A q \in Producers : NotFilled(q)
    BY <2>1, NotTriggering
  <2>. QED BY <1>2, <2>2 DEF NotFilled, Second
<1>. QED BY <1>1, <1>2, <1>3, <1>4, TimedFirstStep DEF buffers

LEMMA NextTimed ==
    ASSUME InitStep < 2 * FirstN, Producers # {}, Inv, TimedFirst, Inv', [Next]_vars
    PROVE  TimedFirst'
<1>1. ASSUME NEW p \in Producers, ProducerStep(p) PROVE TimedFirst'
  <2>1. p \in Pushers /\ p \in Threads
    BY DEF Threads, Pushers
  <2>. QED BY <1>1, <2>1, PushTimed, ReconfigureTimed, CountFirstTimed, RecordFirstTimed, LaterTimed
       DEF ProducerStep
<1>2. ASSUME NEW p \in Phantoms, PhantomStep(p) PROVE TimedFirst'
  <2>1. p \in Pushers /\ p \in Threads
    BY DEF Threads, Pushers
  <2>2. CASE IgnorePhantom(p)
    <3>1. UNCHANGED <<counters, triggers, pushTimes, buffers, requests, call, old, todo>>
          /\ Answer(p, FALSE) /\ TypeOK /\ TypeOK'
      BY <2>2 DEF IgnorePhantom, Inv
    <3>2. \A q \in Producers : q # p /\ q \in Threads /\ q \in Pushers
      BY ObserverThreads DEF Threads, Pushers
    <3>3. \A q \in Producers : pc'[q] = pc[q] /\ timing'[q] = timing[q] /\ phase'[q] = phase[q]
      <4>1. CASE call[p] = "sync"
        BY <3>1, <3>2, <4>1 DEF Answer, Goto, TypeOK
      <4>2. CASE call[p] # "sync"
        BY <3>1, <3>2, <4>2 DEF Answer, Goto, TypeOK
      <4>. QED BY <4>1, <4>2
    <3>. QED BY <3>1, <3>3, ElsewhereTimed DEF counters, triggers, buffers
  <2>. QED BY <1>2, <2>1, <2>2, PushTimed, ReconfigureTimed DEF PhantomStep
<1>3. ASSUME NEW c \in Consumers, ConsumerStep(c) PROVE TimedFirst'
  <2>1. c \in Threads
    BY DEF Threads
  <2>2. CASE Pop(c)
    <3>1. /\ UNCHANGED <<counters, triggers, pushTimes, step, applied, requests, caller, call, old, todo>>
          /\ TypeOK /\ TypeOK'
      BY <2>2 DEF Pop, Inv
    <3>2. \A q \in Producers : q # c /\ q \in Threads
      BY ObserverThreads DEF Threads, Pushers
    <3>3. \A q \in Producers : pc'[q] = pc[q] /\ fill'[q] = fill[q]
      BY <2>2, <3>1, <3>2 DEF Pop, Goto, TypeOK
    <3>. QED BY <3>1, <3>3, ElsewhereTimed DEF counters, triggers, caller
  <2>. QED BY <1>3, <2>1, <2>2, ReconfigureTimed, CountFirstTimed, RecordFirstTimed, LaterTimed
       DEF ConsumerStep
<1>4. CASE UNCHANGED vars
  <2>1. /\ UNCHANGED <<counters, triggers, pushTimes, buffers, requests, caller, call, old, todo, pc>>
        /\ TypeOK'
    BY <1>4 DEF vars, Inv
  <2>. QED BY <2>1, ElsewhereTimed DEF counters, triggers, buffers, caller
<1>. QED BY <1>1, <1>2, <1>3, <1>4 DEF Next

(***************************************************************************)
(* The steps are computed from at least one push time, whatever the number *)
(* of threads: the vectors std::min_element runs over are not all empty,   *)
(* because a local queue that fills up before its work alone makes the     *)
(* wanted reports has its push timed first.                                *)
(***************************************************************************)
THEOREM TriggerKnowsPushTime ==
    ASSUME InitStep < 2 * FirstN, Producers # {}
    PROVE  Spec => []PushTimeKnown
<1>1. Init => TimedFirst
  BY InitTimedFirst
<1>2. Inv /\ TimedFirst /\ Inv' /\ [Next]_vars => TimedFirst'
  BY NextTimed
<1>3. TimedFirst => PushTimeKnown
  BY DEF TimedFirst, ReportsCounted, NothingTimed, PushTimeKnown
<1>. QED BY <1>1, <1>2, <1>3, InvHolds, PTL DEF Spec
=================================================================================
