---------------------------- MODULE NaiveQueueProofs ----------------------------
(***************************************************************************)
(* For any number of threads, items, capacities and steps: the types, no   *)
(* push into a full local buffer, no lost wakeup, the end of the queue     *)
(* reported only when it is drained, one request of the observer never     *)
(* forgotten; and the queue implements Channel.                            *)
(***************************************************************************)
EXTENDS NaiveQueue, TLAPS, SequenceTheorems, FiniteSetTheorems

USE ThreadsAssumption, SizesAssumption

\* Splitting a buffer after n elements.
LEMMA SplitType ==
    ASSUME NEW S, NEW s \in Seq(S), NEW n \in 0..Len(s)
    PROVE  /\ First(n, s) \in Seq(S) /\ Len(First(n, s)) = n
           /\ Rest(n, s) \in Seq(S)  /\ Len(Rest(n, s)) = Len(s) - n
<1>1. Len(s) \in Nat /\ \A i \in 1..Len(s) : s[i] \in S
  BY LenProperties, ElementOfSeq
<1>2. /\ First(n, s) \in Seq(S)
      /\ Len(First(n, s)) = IF 1 <= n THEN n - 1 + 1 ELSE 0
  <2>1. \A i \in 1..n : s[i] \in S
    BY <1>1
  <2>. QED BY <1>1, <2>1, SubSeqProperties, n \in Int DEF First
<1>3. /\ Rest(n, s) \in Seq(S)
      /\ Len(Rest(n, s)) = IF n + 1 <= Len(s) THEN Len(s) - (n + 1) + 1 ELSE 0
  <2>1. \A i \in n+1..Len(s) : s[i] \in S
    BY <1>1
  <2>. QED BY <1>1, <2>1, SubSeqProperties, n + 1 \in Int, Len(s) \in Int DEF Rest
<1>. QED BY <1>1, <1>2, <1>3

\* The number of producers, and how many of them are gone.
LEMMA CountGone ==
    /\ Cardinality(Producers) \in Nat
    /\ IsFiniteSet(Gone)
    /\ Cardinality(Gone) \in 0..Cardinality(Producers)
    /\ Cardinality(Gone) = Cardinality(Producers) => Gone = Producers
<1>1. Gone \in SUBSET Producers
  BY DEF Gone
<1>. QED BY <1>1, FS_Subset, FS_CardinalityType

---------------------------------------------------------------------------------
LEMMA InitInv == Init => Inv
<1> SUFFICES ASSUME Init PROVE Inv
  OBVIOUS
<1> USE DEF Init
<1>1. TypeOK
  BY EmptySeq, CountGone DEF TypeOK, Label
<1>2. ProducerBuffers /\ ConsumerBuffers /\ NoLostWakeup /\ EndMeansDrained
  BY EmptySeq DEF ProducerBuffers, ConsumerBuffers, NoLostWakeup, EndMeansDrained, Threads
<1>3. nTerminated = Cardinality(Gone)
  <2>1. Gone = {}
    BY DEF Gone, Threads
  <2>. QED BY <2>1, FS_EmptySet
<1>. QED BY <1>1, <1>2, <1>3 DEF Inv

(***************************************************************************)
(* A step of a thread outside the critical sections: only its own buffer,  *)
(* step and position may change, so it suffices to look at that thread.    *)
(***************************************************************************)
ProducerAt(label, s, n) ==
    /\ label \in {"ready", "flush", "check", "resize", "clear"} => Len(s) < n
    /\ label = "flush" => s # <<>>
    /\ label = "enqueue" => Len(s) = n
    /\ label = "done" => s = <<>>

ConsumerAt(label, s) ==
    /\ label \in {"ready", "resize", "clear", "done"}
    /\ label \in {"resize", "clear"} => s # <<>>

LEMMA LocalStep ==
    ASSUME Inv, TypeOK', NEW t \in Threads,
           UNCHANGED master,
           pc[t] # "done", pc'[t] # "done",
           \A u \in Threads \ {t} : /\ local'[u] = local[u]
                                    /\ step'[u] = step[u]
                                    /\ pc'[u] = pc[u],
           t \in Producers => ProducerAt(pc'[t], local'[t], step'[t]),
           t \in Consumers => ConsumerAt(pc'[t], local'[t])
    PROVE  Inv'
<1>1. ProducerBuffers'
  BY DEF Inv, ProducerBuffers, ProducerAt, Threads
<1>2. ConsumerBuffers'
  BY DEF Inv, ConsumerBuffers, ConsumerAt, Threads
<1>3. Gone' = Gone
  BY DEF Gone, Threads
<1>4. (nTerminated = Cardinality(Gone))'
  BY <1>3 DEF Inv, master
<1>5. NoLostWakeup'
  BY DEF Inv, NoLostWakeup, master, Terminated
<1>6. EndMeansDrained'
  BY DEF Inv, EndMeansDrained, master, Threads
<1>. QED BY <1>1, <1>2, <1>4, <1>5, <1>6 DEF Inv

LEMMA PushInv ==
    ASSUME Inv, NEW p \in Producers, Push(p)
    PROVE  Inv'
<1>1. p \in Threads /\ local[p] \in Seq(Item) /\ Len(local[p]) \in Nat /\ step[p] \in Nat
  BY LenProperties DEF Inv, TypeOK, Threads
<1>2. Len(local[p]) < step[p]
  BY DEF Inv, ProducerBuffers, Push
<1>3. local' = [local EXCEPT ![p] = Append(@, <<p, pushed[p] + 1>>)]
  BY <1>1, <1>2 DEF Push, LocalFull
<1>4. <<p, pushed[p] + 1>> \in Item
  BY DEF Item, Inv, TypeOK, Push
<1>5. local'[p] \in Seq(Item) /\ Len(local'[p]) = Len(local[p]) + 1
  BY <1>1, <1>3, <1>4, AppendProperties DEF Inv, TypeOK
<1>6. pc'[p] = IF Len(local[p]) + 1 >= step[p] THEN "enqueue" ELSE "check"
  BY <1>1 DEF Push, Goto, Inv, TypeOK
<1>7. \A u \in Threads \ {p} : local'[u] = local[u] /\ pc'[u] = pc[u]
  BY <1>3 DEF Push, Goto, Inv, TypeOK
<1>8. TypeOK'
  <2>1. local' \in [Threads -> Seq(Item)]
    <3>1. Append(local[p], <<p, pushed[p] + 1>>) \in Seq(Item)
      BY <1>1, <1>4, AppendProperties
    <3>. QED BY <1>3, <3>1 DEF Inv, TypeOK
  <2>4. ASSUME NEW t \in Threads PROVE Len(local'[t]) <= step'[t]
    <3>1. step' = step
      BY DEF Push
    <3>2. CASE t = p
      BY <1>1, <1>2, <1>5, <3>1, <3>2
    <3>3. CASE t # p
      BY <1>7, <3>1, <3>3 DEF Inv, TypeOK
    <3>. QED BY <3>2, <3>3
  <2>2. pc' \in [Threads -> Label]
    BY DEF Inv, TypeOK, Push, Goto, Label
  <2>3. pushed' \in [Producers -> 0..N]
    BY DEF Inv, TypeOK, Push
  <2>. QED BY <2>1, <2>2, <2>3, <2>4 DEF Inv, TypeOK, Push, master, request
<1>9. ProducerAt(pc'[p], local'[p], step'[p])
  BY <1>1, <1>2, <1>5, <1>6 DEF ProducerAt, Push
<1>. QED
  BY <1>1, <1>6, <1>7, <1>8, <1>9, LocalStep DEF Push

LEMMA ForcePushInv ==
    ASSUME Inv, NEW p \in Producers, ForcePush(p)
    PROVE  Inv'
<1>1. p \in Threads /\ pc'[p] = "flush" /\ \A u \in Threads \ {p} : pc'[u] = pc[u]
  BY DEF ForcePush, Goto, Inv, TypeOK, Threads
<1>2. TypeOK'
  BY DEF Inv, TypeOK, ForcePush, Goto, Label, master, request
<1>3. ProducerAt(pc'[p], local'[p], step'[p])
  BY <1>1 DEF ProducerAt, ForcePush, Inv, ProducerBuffers
<1>. QED
  BY <1>1, <1>2, <1>3, LocalStep DEF ForcePush

LEMMA TerminateInv ==
    ASSUME Inv, NEW p \in Producers, Terminate(p)
    PROVE  Inv'
<1>1. p \in Threads /\ pc'[p] = "terminate" /\ \A u \in Threads \ {p} : pc'[u] = pc[u]
  BY DEF Terminate, Goto, Inv, TypeOK, Threads
<1>2. TypeOK'
  BY DEF Inv, TypeOK, Terminate, Goto, Label, master, request
<1>3. ProducerAt(pc'[p], local'[p], step'[p])
  BY <1>1 DEF ProducerAt
<1>. QED
  BY <1>1, <1>2, <1>3, LocalStep DEF Terminate

LEMMA EnqueueInv ==
    ASSUME Inv, NEW p \in Producers, Enqueue(p)
    PROVE  Inv'
<1>1. /\ p \in Threads /\ p \notin Consumers
      /\ local[p] \in Seq(Item) /\ Len(local[p]) \in Nat
      /\ step[p] \in Nat \ {0} /\ Len(local[p]) <= step[p]
      /\ Len(buf) \in Nat /\ Capacity \in Nat
  BY LenProperties DEF Inv, TypeOK, Threads
<1>2. pc[p] \in {"enqueue", "flush", "terminate"} /\ local[p] # <<>>
  BY <1>1, EmptySeq DEF Enqueue, Inv, ProducerBuffers
<1>3. CASE Len(buf) = Capacity /\ notFull' = notFull \cup {p}
           /\ UNCHANGED <<buf, local, notEmpty, pc>>
  <2>1. TypeOK'
    BY <1>3 DEF Inv, TypeOK, Enqueue, request
  <2>2. NoLostWakeup'
    BY <1>3 DEF Inv, NoLostWakeup, Enqueue, Terminated
  <2>3. ProducerBuffers' /\ ConsumerBuffers' /\ EndMeansDrained' /\ (nTerminated = Cardinality(Gone))'
    BY <1>3 DEF Inv, ProducerBuffers, ConsumerBuffers, EndMeansDrained, Gone, Enqueue
  <2>. QED BY <2>1, <2>2, <2>3 DEF Inv
<1>4. CASE Len(buf) < Capacity
           /\ Transfer(p, IF pc[p] = "flush" THEN Len(local[p]) ELSE step[p])
           /\ Goto(p, AfterEnqueue[pc[p]])
           /\ UNCHANGED notFull
  <2> DEFINE n == Least(IF pc[p] = "flush" THEN Len(local[p]) ELSE step[p],
                        Least(Capacity - Len(buf), Len(local[p])))
  <2>1. n \in 1..Len(local[p]) /\ n <= Capacity - Len(buf)
    BY <1>1, <1>2, <1>4, EmptySeq DEF Least
  <2>2. /\ buf' = buf \o First(n, local[p])
        /\ local' = [local EXCEPT ![p] = Rest(n, @)]
        /\ notEmpty' = {}
    BY <1>4, <2>1 DEF Transfer
  <2> HIDE DEF n
  <2>3. /\ First(n, local[p]) \in Seq(Item) /\ Len(First(n, local[p])) = n
        /\ Rest(n, local[p]) \in Seq(Item) /\ Len(Rest(n, local[p])) = Len(local[p]) - n
    <3>1. n \in 0..Len(local[p])
      BY <2>1
    <3>. QED BY <1>1, <3>1, SplitType
  <2>4. buf' \in Seq(Item) /\ Len(buf') = Len(buf) + n
    <3>1. buf \in Seq(Item)
      BY DEF Inv, TypeOK
    <3>2. /\ buf \o First(n, local[p]) \in Seq(Item)
          /\ Len(buf \o First(n, local[p])) = Len(buf) + Len(First(n, local[p]))
      BY <2>3, <3>1, ConcatProperties
    <3>. QED BY <2>2, <2>3, <3>2
  <2>5. /\ local'[p] = Rest(n, local[p])
        /\ \A u \in Threads \ {p} : local'[u] = local[u]
    BY <1>1, <2>2 DEF Inv, TypeOK
  <2>6. /\ pc'[p] = AfterEnqueue[pc[p]]
        /\ \A u \in Threads \ {p} : pc'[u] = pc[u]
        /\ pc' \in [Threads -> Label]
    BY <1>1, <1>2, <1>4 DEF Goto, Inv, TypeOK, AfterEnqueue, Label
  <2>7. /\ pc[p] = "enqueue" => pc'[p] = "check"
        /\ pc[p] = "flush" => pc'[p] = "ready"
        /\ pc[p] = "terminate" => pc'[p] = "terminate"
    BY <2>6 DEF AfterEnqueue
  <2>8. step' = step /\ nTerminated' = nTerminated
    BY DEF Enqueue
  <2>9. TypeOK'
    <3>1. local' \in [Threads -> Seq(Item)]
      BY <2>2, <2>3 DEF Inv, TypeOK
    <3>2. ASSUME NEW t \in Threads PROVE Len(local'[t]) <= step'[t]
      <4>1. CASE t = p
        BY <1>1, <2>1, <2>3, <2>5, <2>8, <4>1
      <4>2. CASE t # p
        BY <2>5, <2>8, <4>2 DEF Inv, TypeOK
      <4>. QED BY <4>1, <4>2
    <3>3. Len(buf') <= Capacity
      BY <1>1, <2>1, <2>4
    <3>. QED BY <1>4, <2>2, <2>4, <2>6, <3>1, <3>2, <3>3 DEF Inv, TypeOK, Enqueue, request
  <2>10. ProducerBuffers'
    <3>1. Len(local'[p]) < step'[p]
      BY <1>1, <2>1, <2>3, <2>5, <2>8
    <3>. QED BY <1>1, <1>2, <2>5, <2>6, <2>7, <2>8, <3>1 DEF Inv, ProducerBuffers, Threads
  <2>11. ConsumerBuffers'
    BY <1>1, <2>5, <2>6 DEF Inv, ConsumerBuffers, Threads
  <2>12. Gone' = Gone
    BY <1>1, <1>2, <2>6, <2>7 DEF Gone, Threads
  <2>13. NoLostWakeup'
    BY <1>1, <1>4, <2>2 DEF Inv, NoLostWakeup
  <2>14. EndMeansDrained'
    <3>1. \A c \in Consumers : pc'[c] = pc[c]
      BY <1>1, <2>6 DEF Threads
    <3>2. pc[p] # "done"
      BY <1>2
    <3>. QED BY <3>1, <3>2 DEF Inv, EndMeansDrained
  <2>. QED BY <2>8, <2>9, <2>10, <2>11, <2>12, <2>13, <2>14 DEF Inv
<1>. QED BY <1>3, <1>4 DEF Enqueue

LEMMA MasterTerminateInv ==
    ASSUME Inv, NEW p \in Producers, MasterTerminate(p)
    PROVE  Inv'
<1>1. p \in Threads /\ p \notin Consumers /\ p \notin Gone
  BY DEF Threads, MasterTerminate, Gone
<1>2. pc'[p] = "done" /\ \A u \in Threads \ {p} : pc'[u] = pc[u]
  BY <1>1 DEF MasterTerminate, Goto, Inv, TypeOK
<1>3. Gone' = Gone \cup {p}
  BY <1>1, <1>2 DEF Gone, Threads
<1>4. nTerminated' = Cardinality(Gone') /\ Cardinality(Gone)' \in 0..Cardinality(Producers)
  <2>1. Cardinality(Gone') = Cardinality(Gone) + 1
    BY <1>1, <1>3, CountGone, FS_AddElement
  <2>2. Gone' \in SUBSET Producers
    BY DEF Gone
  <2>3. Cardinality(Gone') \in Nat /\ Cardinality(Gone') <= Cardinality(Producers)
    BY <2>2, FS_Subset, FS_CardinalityType
  <2>. QED BY <2>1, <2>3, CountGone DEF MasterTerminate, Inv
<1>5. TypeOK'
  <2>1. pc' \in [Threads -> Label]
    BY DEF MasterTerminate, Goto, Inv, TypeOK, Label
  <2>2. notEmpty' \subseteq Consumers
    BY DEF MasterTerminate, Inv, TypeOK
  <2>. QED BY <1>4, <2>1, <2>2 DEF MasterTerminate, Inv, TypeOK, request
<1>6. ProducerBuffers'
  BY <1>1, <1>2 DEF Inv, ProducerBuffers, MasterTerminate, Threads
<1>7. ConsumerBuffers'
  BY <1>1, <1>2 DEF Inv, ConsumerBuffers, MasterTerminate, Threads
<1>8. NoLostWakeup'
  BY DEF Inv, NoLostWakeup, Terminated, MasterTerminate
<1>9. EndMeansDrained'
  <2>1. \A c \in Consumers : pc'[c] = pc[c]
    BY <1>1, <1>2 DEF Threads
  <2>2. pc[p] # "done"
    BY DEF MasterTerminate
  <2>. QED BY <2>1, <2>2 DEF Inv, EndMeansDrained
<1>. QED BY <1>4, <1>5, <1>6, <1>7, <1>8, <1>9 DEF Inv

LEMMA DequeueInv ==
    ASSUME Inv, NEW c \in Consumers, Dequeue(c)
    PROVE  Inv'
<1>1. /\ c \in Threads /\ c \notin Producers
      /\ step[c] \in Nat \ {0}
      /\ buf \in Seq(Item) /\ Len(buf) \in Nat /\ Capacity \in Nat \ {0}
      /\ local[c] = <<>> /\ Len(local[c]) = 0 /\ local[c] \in Seq(Item)
      /\ pc[c] = "ready"
  BY LenProperties, EmptySeq DEF Inv, TypeOK, Threads, Dequeue
<1>2. CASE buf = <<>> /\ ~Terminated /\ notEmpty' = notEmpty \cup {c}
           /\ UNCHANGED <<buf, notFull, local, pc>>
  <2>1. TypeOK'
    BY <1>2 DEF Inv, TypeOK, Dequeue, request
  <2>2. NoLostWakeup'
    BY <1>2 DEF Inv, NoLostWakeup, Dequeue, Terminated
  <2>3. ProducerBuffers' /\ ConsumerBuffers' /\ EndMeansDrained' /\ (nTerminated = Cardinality(Gone))'
    BY <1>2 DEF Inv, ProducerBuffers, ConsumerBuffers, EndMeansDrained, Gone, Dequeue
  <2>. QED BY <2>1, <2>2, <2>3 DEF Inv
<1>3. CASE buf = <<>> /\ Terminated /\ Goto(c, "done")
           /\ UNCHANGED <<buf, notFull, notEmpty, local>>
  <2>1. pc'[c] = "done" /\ \A u \in Threads \ {c} : pc'[u] = pc[u]
    BY <1>1, <1>3 DEF Goto, Inv, TypeOK
  <2>2. Gone' = Gone
    BY <1>1, <2>1 DEF Gone, Threads
  <2>3. TypeOK'
    BY <1>3 DEF Inv, TypeOK, Dequeue, request, Goto, Label
  <2>4. NoLostWakeup'
    BY <1>3 DEF Inv, NoLostWakeup, Dequeue, Terminated
  <2>5. ProducerBuffers'
    BY <1>1, <1>3, <2>1 DEF Inv, ProducerBuffers, Dequeue, Threads
  <2>6. ConsumerBuffers'
    BY <1>1, <1>3, <2>1 DEF Inv, ConsumerBuffers, Threads
  <2>7. EndMeansDrained'
    <3>1. Gone = Producers
      BY <1>3, CountGone DEF Inv, Terminated
    <3>2. \A q \in Producers : pc[q] = "done" /\ local[q] = <<>>
      BY <3>1 DEF Gone, Inv, ProducerBuffers
    <3>. QED BY <1>1, <1>3, <2>1, <3>2 DEF EndMeansDrained, Threads
  <2>. QED BY <2>2, <2>3, <2>4, <2>5, <2>6, <2>7 DEF Inv, Dequeue
<1>4. CASE buf # <<>>
  <2> DEFINE n == Least(step[c], Least(Len(buf), step[c] - Len(local[c])))
  <2>1. n \in 1..Len(buf) /\ n <= step[c]
    BY <1>1, <1>4, EmptySeq DEF Least
  <2>2. /\ local' = [local EXCEPT ![c] = @ \o First(n, buf)]
        /\ buf' = Rest(n, buf)
        /\ notFull' = {}
        /\ UNCHANGED <<notEmpty, pc>>
    BY <1>4, <2>1 DEF Dequeue
  <2> HIDE DEF n
  <2>3. /\ First(n, buf) \in Seq(Item) /\ Len(First(n, buf)) = n
        /\ Rest(n, buf) \in Seq(Item) /\ Len(Rest(n, buf)) = Len(buf) - n
    <3>1. n \in 0..Len(buf)
      BY <2>1
    <3>. QED BY <1>1, <3>1, SplitType
  <2>4. local[c] \o First(n, buf) = First(n, buf)
    BY <1>1, <2>3, ConcatEmptySeq
  <2>5. local' \in [Threads -> Seq(Item)] /\ local'[c] = First(n, buf)
        /\ \A u \in Threads \ {c} : local'[u] = local[u]
    BY <1>1, <2>2, <2>3, <2>4 DEF Inv, TypeOK
  <2>6. step' = step /\ nTerminated' = nTerminated
    BY DEF Dequeue
  <2>7. TypeOK'
    <3>1. ASSUME NEW t \in Threads PROVE Len(local'[t]) <= step'[t]
      <4>1. CASE t = c
        BY <2>1, <2>3, <2>5, <2>6, <4>1
      <4>2. CASE t # c
        BY <2>5, <2>6, <4>2 DEF Inv, TypeOK
      <4>. QED BY <4>1, <4>2
    <3>2. Len(buf') <= Capacity
      BY <1>1, <2>1, <2>2, <2>3 DEF Inv, TypeOK
    <3>. QED BY <2>2, <2>3, <2>5, <3>1, <3>2 DEF Inv, TypeOK, Dequeue, request
  <2>8. ProducerBuffers'
    BY <1>1, <2>2, <2>5, <2>6 DEF Inv, ProducerBuffers, Threads
  <2>9. ConsumerBuffers'
    BY <1>1, <2>2, <2>5 DEF Inv, ConsumerBuffers, Threads
  <2>10. NoLostWakeup'
    BY <1>4, <2>2 DEF Inv, NoLostWakeup
  <2>11. EndMeansDrained'
    BY <1>4, <2>2 DEF Inv, EndMeansDrained
  <2>12. (nTerminated = Cardinality(Gone))'
    BY <2>2, <2>6 DEF Inv, Gone
  <2>. QED BY <2>7, <2>8, <2>9, <2>10, <2>11, <2>12 DEF Inv
<1>. QED BY <1>2, <1>3, <1>4 DEF Dequeue

\* What the end of push and pop does to the thread that runs it.
LEMMA FinishLocal ==
    ASSUME Inv, NEW t \in Threads, Finish(t), pc[t] # "done",
           t \in Consumers => local[t] # <<>>
    PROVE  /\ pc'[t] = "ready" /\ pc' \in [Threads -> Label]
           /\ \A u \in Threads \ {t} : pc'[u] = pc[u] /\ local'[u] = local[u]
           /\ local' \in [Threads -> Seq(Item)]
           /\ taken' \in [Consumers -> Seq(Item)]
           /\ Len(local'[t]) <= Len(local[t])
           /\ t \in Producers => local' = local
<1>1. /\ local[t] \in Seq(Item) /\ Len(local[t]) \in Nat
      /\ local \in [Threads -> Seq(Item)] /\ taken \in [Consumers -> Seq(Item)]
  BY LenProperties DEF Inv, TypeOK
<1>2. pc' = [pc EXCEPT ![t] = "ready"] /\ pc \in [Threads -> Label]
  BY DEF Finish, Goto, Inv, TypeOK
<1>3. CASE t \in Consumers
  <2>1. /\ taken' = [taken EXCEPT ![t] = Append(@, Head(local[t]))]
        /\ local' = [local EXCEPT ![t] = Tail(@)]
    BY <1>3 DEF Finish, PopLocal
  <2>2. /\ Head(local[t]) \in Item /\ Tail(local[t]) \in Seq(Item)
        /\ Len(Tail(local[t])) = Len(local[t]) - 1
    BY <1>1, <1>3, HeadTailProperties
  <2>3. Append(taken[t], Head(local[t])) \in Seq(Item)
    BY <1>1, <1>3, <2>2, AppendProperties
  <2>4. /\ pc'[t] = "ready" /\ pc' \in [Threads -> Label]
        /\ \A u \in Threads \ {t} : pc'[u] = pc[u]
    BY <1>2 DEF Label
  <2>5. /\ local' \in [Threads -> Seq(Item)] /\ local'[t] = Tail(local[t])
        /\ \A u \in Threads \ {t} : local'[u] = local[u]
    BY <1>1, <2>1, <2>2
  <2>6. taken' \in [Consumers -> Seq(Item)]
    BY <1>1, <1>3, <2>1, <2>3
  <2>7. Len(local'[t]) <= Len(local[t])
    BY <1>1, <2>2, <2>5
  <2>. QED BY <1>3, <2>4, <2>5, <2>6, <2>7
<1>4. CASE t \notin Consumers
  BY <1>1, <1>2, <1>4 DEF Finish, Label
<1>. QED BY <1>3, <1>4

LEMMA FinishInv ==
    ASSUME Inv, NEW t \in Threads, Finish(t), pc[t] # "done",
           t \in Consumers => local[t] # <<>>,
           t \in Producers => Len(local[t]) < step[t],
           UNCHANGED <<master, step, newStep, asking, asked, pushed>>,
           needReconfigure' \in [Threads -> BOOLEAN],
           reconfigured' \in [Threads -> BOOLEAN]
    PROVE  Inv'
<1>1. /\ pc'[t] = "ready" /\ pc' \in [Threads -> Label]
      /\ \A u \in Threads \ {t} : pc'[u] = pc[u] /\ local'[u] = local[u]
      /\ local' \in [Threads -> Seq(Item)] /\ taken' \in [Consumers -> Seq(Item)]
      /\ Len(local'[t]) <= Len(local[t])
      /\ t \in Producers => local' = local
  BY FinishLocal
<1>2. /\ Len(local[t]) \in Nat /\ Len(local'[t]) \in Nat /\ step[t] \in Nat
      /\ Len(local[t]) <= step[t]
  BY <1>1, LenProperties DEF Inv, TypeOK
<1>3. TypeOK'
  <2>1. ASSUME NEW u \in Threads PROVE Len(local'[u]) <= step'[u]
    <3>1. CASE u = t
      BY <1>1, <1>2, <3>1
    <3>2. CASE u # t
      BY <1>1, <3>2 DEF Inv, TypeOK
    <3>. QED BY <3>1, <3>2
  <2>. QED BY <1>1, <2>1 DEF Inv, TypeOK, master
<1>4. /\ t \in Producers => ProducerAt(pc'[t], local'[t], step'[t])
      /\ t \in Consumers => ConsumerAt(pc'[t], local'[t])
  BY <1>1 DEF ProducerAt, ConsumerAt
<1>. QED BY <1>1, <1>3, <1>4, LocalStep

LEMMA CheckInv ==
    ASSUME Inv, NEW t \in Threads, Check(t)
    PROVE  Inv'
<1>1. /\ pc[t] # "done" /\ (t \in Consumers => local[t] # <<>>)
      /\ (t \in Producers => t \notin Consumers /\ pc[t] = "check" /\ Len(local[t]) < step[t])
  BY DEF Check, Inv, ProducerBuffers
<1>2. CASE needReconfigure[t]
  <2>1. /\ pc'[t] = "resize" /\ \A u \in Threads \ {t} : pc'[u] = pc[u]
        /\ pc' \in [Threads -> Label]
    BY <1>2 DEF Check, Goto, Inv, TypeOK, Label
  <2>2. TypeOK'
    BY <1>2, <2>1 DEF Inv, TypeOK, Check, master, request
  <2>3. local' = local /\ step' = step /\ UNCHANGED master
    BY <1>2 DEF Check
  <2>4. /\ t \in Producers => ProducerAt(pc'[t], local'[t], step'[t])
        /\ t \in Consumers => ConsumerAt(pc'[t], local'[t])
    BY <1>1, <2>1, <2>3 DEF ProducerAt, ConsumerAt
  <2>. QED BY <1>1, <2>1, <2>2, <2>3, <2>4, LocalStep
<1>3. CASE ~needReconfigure[t]
  BY <1>1, <1>3, FinishInv DEF Check, request, Inv, TypeOK
<1>. QED BY <1>2, <1>3

LEMMA ResizeInv ==
    ASSUME Inv, NEW t \in Threads, Resize(t)
    PROVE  Inv'
<1>1. /\ pc[t] = "resize" /\ (t \in Consumers => local[t] # <<>>)
      /\ (t \in Producers => t \notin Consumers /\ Len(local[t]) < step[t])
      /\ local[t] \in Seq(Item) /\ Len(local[t]) \in Nat
      /\ step[t] \in Nat \ {0} /\ newStep[t] \in Nat /\ Len(local[t]) <= step[t]
  BY LenProperties DEF Resize, Inv, ProducerBuffers, ConsumerBuffers, TypeOK
<1>2. CASE Fits(t, newStep[t]) /\ step' = [step EXCEPT ![t] = newStep[t]]
           /\ Goto(t, "clear") /\ UNCHANGED <<local, taken>>
  <2>1. newStep[t] > 0 /\ Len(local[t]) <= newStep[t]
        /\ (t \in Producers => Len(local[t]) < newStep[t])
    BY <1>1, <1>2 DEF Fits
  <2>2. /\ pc'[t] = "clear" /\ pc' \in [Threads -> Label]
        /\ \A u \in Threads \ {t} : pc'[u] = pc[u]
    BY <1>2 DEF Goto, Inv, TypeOK, Label
  <2>3. step'[t] = newStep[t] /\ \A u \in Threads \ {t} : step'[u] = step[u]
    BY <1>2 DEF Inv, TypeOK
  <2>4. TypeOK'
    <3>1. step' \in [Threads -> Nat \ {0}]
      BY <1>1, <1>2, <2>1 DEF Inv, TypeOK
    <3>2. \A u \in Threads : Len(local'[u]) <= step'[u]
      BY <1>2, <2>1, <2>3 DEF Inv, TypeOK
    <3>. QED BY <1>2, <2>2, <3>1, <3>2 DEF Inv, TypeOK, Resize, master, request
  <2>5. /\ t \in Producers => ProducerAt(pc'[t], local'[t], step'[t])
        /\ t \in Consumers => ConsumerAt(pc'[t], local'[t])
    BY <1>1, <1>2, <2>1, <2>2, <2>3 DEF ProducerAt, ConsumerAt
  <2>. QED BY <1>1, <1>2, <2>2, <2>3, <2>4, <2>5, LocalStep DEF Resize
<1>3. CASE Finish(t) /\ UNCHANGED step
  BY <1>1, <1>3, FinishInv DEF Resize, request, Inv, TypeOK
<1>. QED BY <1>2, <1>3 DEF Resize

LEMMA ClearInv ==
    ASSUME Inv, NEW t \in Threads, Clear(t)
    PROVE  Inv'
<1>1. /\ pc[t] = "clear" /\ (t \in Consumers => local[t] # <<>>)
      /\ (t \in Producers => Len(local[t]) < step[t])
  BY DEF Clear, Inv, ProducerBuffers, ConsumerBuffers
<1>2. needReconfigure' \in [Threads -> BOOLEAN] /\ reconfigured' \in [Threads -> BOOLEAN]
  BY DEF Clear, Inv, TypeOK
<1>. QED BY <1>1, <1>2, FinishInv DEF Clear

LEMMA ObserverInv ==
    ASSUME Inv, NEW t \in Threads, Observer(t)
    PROVE  Inv'
<1>1. UNCHANGED <<master, local, step, pc, reconfigured, pushed, taken>>
  BY DEF Observer, WriteNewStep, RaiseFlag
<1>2. TypeOK'
  <2>1. ASSUME NEW s \in NewSteps, WriteNewStep(t, s)
        PROVE  /\ newStep' \in [Threads -> Nat] /\ asking' \in [Threads -> BOOLEAN]
               /\ UNCHANGED <<needReconfigure, asked>>
    BY <2>1 DEF WriteNewStep, Inv, TypeOK
  <2>2. ASSUME RaiseFlag(t)
        PROVE  /\ needReconfigure' \in [Threads -> BOOLEAN] /\ asking' \in [Threads -> BOOLEAN]
               /\ asked' \in [Threads -> Nat]
               /\ UNCHANGED newStep
    BY <2>2 DEF RaiseFlag, Inv, TypeOK
  <2>. QED BY <1>1, <2>1, <2>2 DEF Observer, Inv, TypeOK, master
<1>. QED
  BY <1>1, <1>2 DEF Inv, ProducerBuffers, ConsumerBuffers, Gone, NoLostWakeup, EndMeansDrained,
                    Terminated, master

LEMMA SpuriousWakeupInv ==
    ASSUME Inv, NEW t \in Threads, SpuriousWakeup(t)
    PROVE  Inv'
<1>1. TypeOK'
  BY DEF Inv, TypeOK, SpuriousWakeup, request
<1>2. NoLostWakeup'
  BY DEF Inv, NoLostWakeup, SpuriousWakeup, Terminated
<1>. QED
  BY <1>1, <1>2 DEF SpuriousWakeup, Inv, ProducerBuffers, ConsumerBuffers, Gone, EndMeansDrained
---------------------------------------------------------------------------------
LEMMA NextInv == Inv /\ [Next]_vars => Inv'
<1> SUFFICES ASSUME Inv, [Next]_vars PROVE Inv'
  OBVIOUS
<1>1. ASSUME NEW p \in Producers, Producer(p) PROVE Inv'
  BY <1>1, PushInv, ForcePushInv, TerminateInv, EnqueueInv, MasterTerminateInv DEF Producer
<1>2. ASSUME NEW c \in Consumers, Consumer(c) PROVE Inv'
  BY <1>2, DequeueInv DEF Consumer
<1>3. ASSUME NEW t \in Threads, Reconfigure(t) PROVE Inv'
  BY <1>3, CheckInv, ResizeInv, ClearInv DEF Reconfigure
<1>4. ASSUME UNCHANGED vars PROVE Inv'
  BY <1>4 DEF vars, master, request, Inv, TypeOK, ProducerBuffers, ConsumerBuffers, Gone,
              NoLostWakeup, EndMeansDrained, Terminated
<1>. QED
  BY <1>1, <1>2, <1>3, <1>4, ObserverInv, SpuriousWakeupInv DEF Next, Finished

LEMMA InvHolds == Spec => []Inv
BY InitInv, NextInv, PTL DEF Spec

(***************************************************************************)
(* Type correctness: the shared buffer never exceeds its capacity and no   *)
(* local buffer its step, whatever steps the observer asks for.            *)
(***************************************************************************)
THEOREM TypeCorrect == Spec => []TypeOK
<1>1. Inv => TypeOK
  BY DEF Inv
<1>. QED BY <1>1, InvHolds, PTL

(***************************************************************************)
(* push never meets a full local buffer, so its unchecked push_local never *)
(* drops an item.                                                          *)
(***************************************************************************)
THEOREM PushNeverDrops == Spec => []RoomToPush
<1>1. Inv => RoomToPush
  BY DEF Inv, ProducerBuffers, RoomToPush
<1>. QED BY <1>1, InvHolds, PTL

(***************************************************************************)
(* No consumer sleeps on a queue that holds an item or is over, and no     *)
(* producer on one that has a free place.                                  *)
(***************************************************************************)
THEOREM WakeupsNotLost == Spec => []NoLostWakeup
<1>1. Inv => NoLostWakeup
  BY DEF Inv
<1>. QED BY <1>1, InvHolds, PTL

(***************************************************************************)
(* When pop reports the end of the queue, every producer has terminated    *)
(* and neither its local buffer nor the shared one holds an item.          *)
(***************************************************************************)
THEOREM DrainedAtTheEnd == Spec => []EndMeansDrained
<1>1. Inv => EndMeansDrained
  BY DEF Inv
<1>. QED BY <1>1, InvHolds, PTL
---------------------------------------------------------------------------------
(***************************************************************************)
(* The order of the items, which the refinement needs beside Inv: the      *)
(* items of a producer stand in the shared buffer in the order they were   *)
(* pushed, before the ones of its local buffer, and none is newer than its *)
(* last push.                                                              *)
(***************************************************************************)
Ascending(s) == \A i, j \in DOMAIN s : i < j /\ s[i][1] = s[j][1] => s[i][2] < s[j][2]
Precedes(s, t) == \A i \in DOMAIN s, j \in DOMAIN t : s[i][1] = t[j][1] => s[i][2] < t[j][2]

InOrder ==
    /\ Ascending(buf)
    /\ \A i \in DOMAIN buf : buf[i][2] <= pushed[buf[i][1]]
    /\ \A p \in Producers :
        /\ Ascending(local[p])
        /\ Precedes(buf, local[p])
        /\ \A i \in DOMAIN local[p] : local[p][i][1] = p /\ local[p][i][2] <= pushed[p]

\* Splitting an ordered buffer after n elements.
LEMMA SplitOrder ==
    ASSUME NEW s \in Seq(Item), NEW n \in 0..Len(s), Ascending(s)
    PROVE  /\ Ascending(First(n, s)) /\ Ascending(Rest(n, s))
           /\ Precedes(First(n, s), Rest(n, s))
           /\ Elements(s) = Elements(First(n, s)) \cup Elements(Rest(n, s))
           /\ DOMAIN First(n, s) = 1..n /\ DOMAIN Rest(n, s) = 1..(Len(s) - n)
           /\ DOMAIN s = 1..Len(s) /\ Len(s) \in Nat
           /\ \A i \in 1..n : First(n, s)[i] = s[i]
           /\ \A i \in 1..(Len(s) - n) : Rest(n, s)[i] = s[n + i]
<1>1. Len(s) \in Nat /\ DOMAIN s = 1..Len(s) /\ \A i \in 1..Len(s) : s[i] \in Item
  BY LenProperties, ElementOfSeq
<1>2. /\ DOMAIN First(n, s) = 1..n
      /\ DOMAIN Rest(n, s) = 1..(Len(s) - n)
  <2>1. /\ First(n, s) \in Seq(Item) /\ Len(First(n, s)) = n
        /\ Rest(n, s) \in Seq(Item) /\ Len(Rest(n, s)) = Len(s) - n
    BY SplitType
  <2>. QED BY <2>1, LenProperties
<1>3. \A i \in 1..n : First(n, s)[i] = s[i]
  <2>1. \A i \in 1..n : s[i] \in Item
    BY <1>1
  <2>2. \A i \in 1..n - 1 + 1 : SubSeq(s, 1, n)[i] = s[1 + i - 1]
    BY <1>1, <2>1, SubSeqProperties, n \in Int
  <2>. QED BY <1>1, <2>2 DEF First
<1>4. \A i \in 1..(Len(s) - n) : Rest(n, s)[i] = s[n + i]
  <2>1. \A i \in n+1..Len(s) : s[i] \in Item
    BY <1>1
  <2>2. \A i \in 1..Len(s) - (n + 1) + 1 : SubSeq(s, n + 1, Len(s))[i] = s[n + 1 + i - 1]
    BY <1>1, <2>1, SubSeqProperties, n + 1 \in Int, Len(s) \in Int
  <2>. QED BY <1>1, <2>2 DEF Rest
<1>5. Ascending(First(n, s))
  BY <1>1, <1>2, <1>3 DEF Ascending
<1>6. Ascending(Rest(n, s))
  <2>1. ASSUME NEW i \in 1..(Len(s) - n), NEW j \in 1..(Len(s) - n),
               i < j, Rest(n, s)[i][1] = Rest(n, s)[j][1]
        PROVE  Rest(n, s)[i][2] < Rest(n, s)[j][2]
    <3>1. n + i \in 1..Len(s) /\ n + j \in 1..Len(s) /\ n + i < n + j
      BY <1>1, <2>1
    <3>2. Rest(n, s)[i] = s[n + i] /\ Rest(n, s)[j] = s[n + j]
      BY <1>4
    <3>. QED BY <1>1, <2>1, <3>1, <3>2 DEF Ascending
  <2>. QED BY <1>2, <2>1 DEF Ascending
<1>7. Precedes(First(n, s), Rest(n, s))
  <2>1. ASSUME NEW i \in 1..n, NEW j \in 1..(Len(s) - n), First(n, s)[i][1] = Rest(n, s)[j][1]
        PROVE  First(n, s)[i][2] < Rest(n, s)[j][2]
    <3>1. i \in 1..Len(s) /\ n + j \in 1..Len(s) /\ i < n + j
      BY <1>1
    <3>2. First(n, s)[i] = s[i] /\ Rest(n, s)[j] = s[n + j]
      BY <1>3, <1>4
    <3>. QED BY <1>1, <2>1, <3>1, <3>2 DEF Ascending
  <2>. QED BY <1>2, <2>1 DEF Precedes
<1>8. Elements(s) = Elements(First(n, s)) \cup Elements(Rest(n, s))
  <2>1. ASSUME NEW i \in 1..Len(s)
        PROVE  s[i] \in Elements(First(n, s)) \cup Elements(Rest(n, s))
    <3>1. CASE i \in 1..n
      BY <1>2, <1>3, <3>1 DEF Elements
    <3>2. CASE i \notin 1..n
      <4>1. i - n \in 1..(Len(s) - n) /\ n + (i - n) = i
        BY <1>1, <3>2
      <4>. QED BY <1>2, <1>4, <4>1 DEF Elements
    <3>. QED BY <3>1, <3>2
  <2>2. Elements(First(n, s)) \subseteq Elements(s)
    BY <1>1, <1>2, <1>3 DEF Elements
  <2>3. ASSUME NEW j \in 1..(Len(s) - n) PROVE Rest(n, s)[j] \in Elements(s)
    <3>1. n + j \in 1..Len(s)
      BY <1>1
    <3>. QED BY <1>1, <1>4, <3>1 DEF Elements
  <2>. QED BY <1>1, <1>2, <2>1, <2>2, <2>3 DEF Elements
<1>. QED BY <1>1, <1>2, <1>3, <1>4, <1>5, <1>6, <1>7, <1>8

\* Appending one ordered sequence of items to another that precedes it.
LEMMA ConcatOrder ==
    ASSUME NEW s \in Seq(Item), NEW t \in Seq(Item),
           Ascending(s), Ascending(t), Precedes(s, t)
    PROVE  /\ Ascending(s \o t)
           /\ Elements(s \o t) = Elements(s) \cup Elements(t)
<1>1. /\ Len(s) \in Nat /\ DOMAIN s = 1..Len(s)
      /\ Len(t) \in Nat /\ DOMAIN t = 1..Len(t)
      /\ DOMAIN (s \o t) = 1..(Len(s) + Len(t))
      /\ \A i \in 1..(Len(s) + Len(t)) :
            (s \o t)[i] = IF i <= Len(s) THEN s[i] ELSE t[i - Len(s)]
  BY ConcatProperties, LenProperties
<1> DEFINE u == s \o t
<1> HIDE DEF u
<1>2. /\ DOMAIN u = 1..(Len(s) + Len(t))
      /\ \A i \in 1..Len(s) : u[i] = s[i]
      /\ \A i \in 1..(Len(s) + Len(t)) : i > Len(s) => u[i] = t[i - Len(s)] /\ i - Len(s) \in 1..Len(t)
      /\ \A i \in 1..Len(t) : u[Len(s) + i] = t[i] /\ Len(s) + i \in 1..(Len(s) + Len(t))
  BY <1>1 DEF u
<1>3. ASSUME NEW i \in DOMAIN u, NEW j \in DOMAIN u, i < j, u[i][1] = u[j][1]
      PROVE  u[i][2] < u[j][2]
  <2>1. CASE j <= Len(s)
    <3>1. i \in 1..Len(s) /\ j \in 1..Len(s)
      BY <1>1, <1>2, <1>3, <2>1
    <3>. QED BY <1>1, <1>2, <1>3, <3>1 DEF Ascending
  <2>2. CASE i > Len(s)
    <3>1. /\ u[i] = t[i - Len(s)] /\ i - Len(s) \in 1..Len(t)
          /\ u[j] = t[j - Len(s)] /\ j - Len(s) \in 1..Len(t)
          /\ i - Len(s) < j - Len(s)
      BY <1>1, <1>2, <1>3, <2>2
    <3>. QED BY <1>1, <1>3, <3>1 DEF Ascending
  <2>3. CASE i <= Len(s) /\ j > Len(s)
    <3>1. /\ u[i] = s[i] /\ i \in 1..Len(s)
          /\ u[j] = t[j - Len(s)] /\ j - Len(s) \in 1..Len(t)
      BY <1>1, <1>2, <1>3, <2>3
    <3>. QED BY <1>1, <1>3, <3>1 DEF Precedes
  <2>. QED BY <1>1, <1>2, <2>1, <2>2, <2>3
<1>4. Ascending(u)
  BY <1>3 DEF Ascending
<1>5. Elements(u) = Elements(s) \cup Elements(t)
  <2>1. Elements(u) \subseteq Elements(s) \cup Elements(t)
    <3>1. ASSUME NEW i \in 1..(Len(s) + Len(t)) PROVE u[i] \in Elements(s) \cup Elements(t)
      <4>1. CASE i <= Len(s)
        BY <1>1, <1>2, <4>1 DEF Elements
      <4>2. CASE i > Len(s)
        BY <1>1, <1>2, <4>2 DEF Elements
      <4>. QED BY <1>1, <4>1, <4>2
    <3>. QED BY <1>2, <3>1 DEF Elements
  <2>2. Elements(s) \subseteq Elements(u)
    <3>1. \A i \in 1..Len(s) : i \in 1..(Len(s) + Len(t))
      BY <1>1
    <3>. QED BY <1>1, <1>2, <3>1 DEF Elements
  <2>3. Elements(t) \subseteq Elements(u)
    BY <1>1, <1>2 DEF Elements
  <2>. QED BY <2>1, <2>2, <2>3
<1>. QED BY <1>4, <1>5 DEF u

\* A batch taken from the front of an ordered buffer is one a consumer of the channel may claim.
LEMMA ClaimableBatch ==
    ASSUME NEW s \in Seq(Item), NEW n \in 1..Len(s), Ascending(s),
           NEW others, \A i \in DOMAIN s, y \in others : s[i][1] = y[1] => s[i][2] < y[2],
           \A y \in others : y \in Item
    PROVE  LET batch == Elements(First(n, s))
               unclaimed == Elements(s) \cup others
           IN  /\ batch # {} /\ batch \subseteq unclaimed
               /\ \A x \in batch, y \in unclaimed : Abstract!Older(y, x) => y \in batch
               /\ Elements(Rest(n, s)) \cup others = unclaimed \ batch
               /\ First(n, s) \in Abstract!Arrangements(batch)
<1> DEFINE front == First(n, s)
           rest == Rest(n, s)
           batch == Elements(front)
<1>1. /\ Ascending(front) /\ Ascending(rest) /\ Precedes(front, rest)
      /\ Elements(s) = Elements(front) \cup Elements(rest)
      /\ DOMAIN front = 1..n /\ DOMAIN rest = 1..(Len(s) - n)
      /\ DOMAIN s = 1..Len(s) /\ Len(s) \in Nat
      /\ \A i \in 1..n : front[i] = s[i]
      /\ \A i \in 1..(Len(s) - n) : rest[i] = s[n + i]
  <2>1. n \in 0..Len(s)
    OBVIOUS
  <2>. QED BY <2>1, SplitOrder
<1>2. \A i \in 1..Len(s) : s[i] \in Item /\ s[i][2] \in Nat
  BY <1>1, ElementOfSeq DEF Item
<1>3. n \in Nat /\ \A i \in 1..n : i \in 1..Len(s)
  BY <1>1
<1>4. front \in Seq(Item)
  BY <1>3, SplitType
<1> HIDE DEF front, rest
<1>5. \A x \in batch : \E i \in 1..n : x = front[i] /\ x = s[i] /\ i \in 1..Len(s)
  BY <1>1, <1>3 DEF Elements
<1>6. batch # {}
  <2>1. 1 \in 1..n
    BY <1>3
  <2>. QED BY <1>1, <2>1 DEF Elements
<1>7. ASSUME NEW x \in batch, NEW y \in others PROVE x[1] = y[1] => x[2] < y[2] /\ x # y
  <2>1. PICK i \in 1..n : x = s[i] /\ i \in 1..Len(s)
    BY <1>5
  <2>2. y[2] \in Nat /\ x[2] \in Nat
    BY <1>2, <2>1 DEF Item
  <2>3. x[1] = y[1] => x[2] < y[2]
    BY <1>1, <2>1
  <2>4. x = y => x[1] = y[1] /\ x[2] = y[2]
    OBVIOUS
  <2>. QED BY <2>2, <2>3, <2>4
<1>8. ASSUME NEW x \in batch, NEW y \in Elements(rest) PROVE x[1] = y[1] => x[2] < y[2] /\ x # y
  <2>1. PICK i \in 1..n : x = front[i] /\ x = s[i] /\ i \in 1..Len(s)
    BY <1>5
  <2>2. PICK j \in 1..(Len(s) - n) : y = rest[j]
    BY <1>1 DEF Elements
  <2>3. n + j \in 1..Len(s)
    BY <1>1, <1>3
  <2>4. y[2] \in Nat /\ x[2] \in Nat
    BY <1>1, <1>2, <2>1, <2>2, <2>3
  <2>5. x[1] = y[1] => x[2] < y[2]
    BY <1>1, <2>1, <2>2 DEF Precedes
  <2>6. x = y => x[1] = y[1] /\ x[2] = y[2]
    OBVIOUS
  <2>. QED BY <2>4, <2>5, <2>6
<1>9. \A x \in batch : x[2] \in Nat
  BY <1>2, <1>5
<1>10. \A y \in Elements(rest) \cup others : y[2] \in Nat
  <2>1. ASSUME NEW j \in 1..(Len(s) - n) PROVE rest[j][2] \in Nat
    <3>1. n + j \in 1..Len(s)
      BY <1>1, <1>3
    <3>. QED BY <1>1, <1>2, <3>1
  <2>. QED BY <1>1, <2>1 DEF Elements, Item
<1>11. \A x \in batch, y \in batch \cup Elements(rest) \cup others :
          Abstract!Older(y, x) => y \in batch
  BY <1>7, <1>8, <1>9, <1>10 DEF Abstract!Older
<1>12. \A x \in batch : x \notin Elements(rest) \cup others
  BY <1>7, <1>8
<1>13. front \in Abstract!Arrangements(batch)
  <2>1. front \in [1..n -> batch]
    BY <1>1, <1>4, LenProperties DEF Elements
  <2>2. ASSUME NEW i \in 1..n, NEW j \in 1..n, i < j
        PROVE  front[i] # front[j] /\ ~Abstract!Older(front[j], front[i])
    <3>1. front[i][2] \in Nat /\ front[j][2] \in Nat
      BY <1>1, <1>2, <1>3
    <3>2. front[i][1] = front[j][1] => front[i][2] < front[j][2]
      BY <1>1, <2>2 DEF Ascending
    <3>3. front[i] # front[j]
      BY <3>1, <3>2
    <3>4. ~Abstract!Older(front[j], front[i])
      BY <3>1, <3>2 DEF Abstract!Older
    <3>. QED BY <3>3, <3>4
  <2>3. front \in Bijection(1..n, batch)
    <3>1. \A i, j \in 1..n : front[i] = front[j] => i = j
      BY <1>3, <2>2
    <3>2. \A x \in batch : \E i \in 1..n : front[i] = x
      BY <1>5
    <3>. QED BY <2>1, <3>1, <3>2 DEF Bijection, Injection, Surjection, IsInjective
  <2>4. Cardinality(batch) = n
    BY <1>3, <2>3, FS_CountingElements DEF ExistsBijection
  <2>5. \A i, j \in DOMAIN front : i < j => front[i] # front[j] /\ ~Abstract!Older(front[j], front[i])
    BY <1>1, <2>2
  <2> HIDE DEF batch
  <2>6. Abstract!Cardinality(batch) = Cardinality(batch)
    BY DEF Abstract!Cardinality, Cardinality
  <2>7. front \in [1..Abstract!Cardinality(batch) -> batch]
    BY <2>1, <2>4, <2>6
  <2>. QED BY <2>5, <2>7 DEF Abstract!Arrangements
<1>. QED BY <1>1, <1>6, <1>11, <1>12, <1>13 DEF front, rest
---------------------------------------------------------------------------------
(* The order is kept by every step. *)

\* What the invariants say of the buffers' elements.
LEMMA BufferFacts ==
    ASSUME Inv
    PROVE  /\ buf \in Seq(Item) /\ Len(buf) \in Nat /\ DOMAIN buf = 1..Len(buf)
           /\ \A i \in DOMAIN buf : buf[i] \in Item
           /\ \A t \in Threads : /\ local[t] \in Seq(Item) /\ Len(local[t]) \in Nat
                                 /\ DOMAIN local[t] = 1..Len(local[t])
                                 /\ \A i \in DOMAIN local[t] : local[t][i] \in Item
<1>1. buf \in Seq(Item) /\ \A t \in Threads : local[t] \in Seq(Item)
  BY DEF Inv, TypeOK
<1>. QED BY <1>1, LenProperties, ElementOfSeq

LEMMA OrderKept ==
    ASSUME InOrder, buf' = buf, pushed' = pushed, \A p \in Producers : local'[p] = local[p]
    PROVE  InOrder'
BY DEF InOrder

LEMMA PushOrder ==
    ASSUME Inv, InOrder, NEW p \in Producers, Push(p)
    PROVE  /\ InOrder'
           /\ Elements(local'[p]) = Elements(local[p]) \cup {<<p, pushed[p] + 1>>}
           /\ \A u \in Threads \ {p} : local'[u] = local[u]
<1> DEFINE item == <<p, pushed[p] + 1>>
<1>1. /\ p \in Threads /\ local[p] \in Seq(Item) /\ Len(local[p]) \in Nat
      /\ DOMAIN local[p] = 1..Len(local[p])
      /\ pushed \in [Producers -> 0..N] /\ N \in Nat
  BY BufferFacts DEF Threads, Inv, TypeOK
<1>2. item \in Item /\ item[1] = p /\ item[2] = pushed[p] + 1 /\ pushed[p] \in Nat
  BY <1>1 DEF Item, Push
<1> HIDE DEF item
<1>3. Len(local[p]) < step[p]
  BY DEF Push, Inv, ProducerBuffers
<1>4. local' = [local EXCEPT ![p] = Append(@, item)] /\ local \in [Threads -> Seq(Item)]
  BY <1>3 DEF Push, LocalFull, item, Inv, TypeOK
<1>5. local'[p] = Append(local[p], item) /\ \A u \in Threads \ {p} : local'[u] = local[u]
  BY <1>1, <1>4
<1>6. /\ Append(local[p], item) \in Seq(Item)
      /\ Len(Append(local[p], item)) = Len(local[p]) + 1
      /\ \A i \in 1..Len(local[p]) : Append(local[p], item)[i] = local[p][i]
      /\ Append(local[p], item)[Len(local[p]) + 1] = item
  BY <1>1, <1>2, AppendProperties
<1>7. DOMAIN Append(local[p], item) = 1..(Len(local[p]) + 1)
  BY <1>6, LenProperties
<1>8. /\ DOMAIN local'[p] = 1..(Len(local[p]) + 1)
      /\ \A i \in 1..Len(local[p]) : local'[p][i] = local[p][i]
      /\ local'[p][Len(local[p]) + 1] = item
  BY <1>5, <1>6, <1>7
<1>9. \A i \in DOMAIN local'[p] : i \in DOMAIN local[p] \/ i = Len(local[p]) + 1
  BY <1>1, <1>8
<1>10. /\ buf' = buf /\ pushed'[p] = pushed[p] + 1
       /\ \A q \in Producers \ {p} : pushed'[q] = pushed[q]
  BY <1>1 DEF Push, master
<1>11. \A i \in DOMAIN local[p] : /\ local[p][i][1] = p /\ local[p][i][2] <= pushed[p]
                                  /\ local[p][i][2] \in Nat
  BY <1>1, BufferFacts DEF InOrder, Item
<1>12. \A i \in DOMAIN buf : /\ buf[i][1] \in Producers /\ buf[i][2] \in Nat
                             /\ buf[i][2] <= pushed[buf[i][1]]
  BY BufferFacts DEF InOrder, Item
<1>13. Ascending(local'[p])
  <2>1. ASSUME NEW i \in DOMAIN local'[p], NEW j \in DOMAIN local'[p], i < j
        PROVE  local'[p][i][2] < local'[p][j][2]
    <3>1. i \in DOMAIN local[p] /\ local'[p][i] = local[p][i]
      BY <1>1, <1>8, <1>9, <2>1
    <3>2. CASE j \in DOMAIN local[p]
      BY <1>1, <1>8, <1>11, <2>1, <3>1, <3>2 DEF InOrder, Ascending
    <3>3. CASE j = Len(local[p]) + 1
      BY <1>2, <1>8, <1>11, <3>1, <3>3
    <3>. QED BY <1>9, <3>2, <3>3
  <2>. QED BY <2>1 DEF Ascending
<1>14. Precedes(buf', local'[p])
  <2>1. ASSUME NEW i \in DOMAIN buf, NEW j \in DOMAIN local'[p], buf[i][1] = local'[p][j][1]
        PROVE  buf[i][2] < local'[p][j][2]
    <3>1. CASE j \in DOMAIN local[p]
      BY <1>1, <1>8, <2>1, <3>1 DEF InOrder, Precedes
    <3>2. CASE j = Len(local[p]) + 1
      <4>1. local'[p][j] = item
        BY <1>8, <3>2
      <4>2. buf[i][1] = p
        BY <1>2, <2>1, <4>1
      <4>. QED BY <1>2, <1>12, <4>1, <4>2
    <3>. QED BY <1>9, <3>1, <3>2
  <2>. QED BY <1>10, <2>1 DEF Precedes
<1>15. \A i \in DOMAIN local'[p] : local'[p][i][1] = p /\ local'[p][i][2] <= pushed'[p]
  <2>1. ASSUME NEW i \in DOMAIN local'[p]
        PROVE  local'[p][i][1] = p /\ local'[p][i][2] <= pushed'[p]
    <3>1. CASE i \in DOMAIN local[p]
      <4>1. local'[p][i] = local[p][i]
        BY <1>1, <1>8, <3>1
      <4>. QED BY <1>2, <1>10, <1>11, <3>1, <4>1
    <3>2. CASE i = Len(local[p]) + 1
      BY <1>2, <1>8, <1>10, <3>2
    <3>. QED BY <1>9, <3>1, <3>2
  <2>. QED BY <2>1
<1>16. \A i \in DOMAIN buf' : buf'[i][2] <= pushed'[buf'[i][1]]
  <2>1. \A q \in Producers : pushed[q] \in Nat /\ (pushed'[q] = pushed[q] \/ pushed'[q] = pushed[q] + 1)
    BY <1>1, <1>10
  <2>. QED BY <1>10, <1>12, <2>1
<1>17. ASSUME NEW q \in Producers \ {p}
       PROVE  /\ Ascending(local'[q]) /\ Precedes(buf', local'[q])
              /\ \A i \in DOMAIN local'[q] : local'[q][i][1] = q /\ local'[q][i][2] <= pushed'[q]
  BY <1>5, <1>10 DEF InOrder, Threads
<1>18. Elements(local'[p]) = Elements(local[p]) \cup {item}
  <2>1. \A i \in 1..Len(local[p]) : i \in 1..(Len(local[p]) + 1)
    BY <1>1
  <2>2. Len(local[p]) + 1 \in 1..(Len(local[p]) + 1)
    BY <1>1
  <2>3. Elements(local[p]) \subseteq Elements(local'[p])
    BY <1>1, <1>8, <2>1 DEF Elements
  <2>4. item \in Elements(local'[p])
    BY <1>8, <2>2 DEF Elements
  <2>5. ASSUME NEW i \in DOMAIN local'[p] PROVE local'[p][i] \in Elements(local[p]) \cup {item}
    BY <1>1, <1>8, <1>9 DEF Elements
  <2>6. Elements(local'[p]) \subseteq Elements(local[p]) \cup {item}
    BY <2>5 DEF Elements
  <2>. QED BY <2>3, <2>4, <2>6
<1>. QED BY <1>5, <1>10, <1>13, <1>14, <1>15, <1>16, <1>17, <1>18 DEF InOrder, item
\* The transfer of enqueue: what is in the two buffers together, and its order, stay.
LEMMA EnqueueOrder ==
    ASSUME Inv, InOrder, NEW p \in Producers, Enqueue(p)
    PROVE  /\ InOrder'
           /\ Elements(buf') \cup Elements(local'[p]) = Elements(buf) \cup Elements(local[p])
           /\ \A u \in Threads \ {p} : local'[u] = local[u]
<1>1. /\ p \in Threads /\ local[p] \in Seq(Item) /\ Len(local[p]) \in Nat
      /\ buf \in Seq(Item) /\ Len(buf) \in Nat /\ Capacity \in Nat
      /\ step[p] \in Nat \ {0} /\ local \in [Threads -> Seq(Item)]
  BY BufferFacts DEF Threads, Inv, TypeOK
<1>2. CASE UNCHANGED <<buf, local>>
  BY <1>2, OrderKept DEF Enqueue
<1>3. CASE Len(buf) < Capacity
           /\ Transfer(p, IF pc[p] = "flush" THEN Len(local[p]) ELSE step[p])
  <2> DEFINE n == Least(IF pc[p] = "flush" THEN Len(local[p]) ELSE step[p],
                        Least(Capacity - Len(buf), Len(local[p])))
             front == First(n, local[p])
             rest == Rest(n, local[p])
  <2>1. n \in 0..Len(local[p])
    BY <1>1, <1>3 DEF Least
  <2>2. buf' = buf \o front /\ local' = [local EXCEPT ![p] = rest]
    BY <1>3 DEF Transfer
  <2> HIDE DEF n
  <2>3. Ascending(buf) /\ Ascending(local[p]) /\ Precedes(buf, local[p])
    BY DEF InOrder
  <2>4. /\ front \in Seq(Item) /\ Len(front) = n
        /\ rest \in Seq(Item) /\ Len(rest) = Len(local[p]) - n
    BY <1>1, <2>1, SplitType
  <2>5. /\ Ascending(front) /\ Ascending(rest) /\ Precedes(front, rest)
        /\ Elements(local[p]) = Elements(front) \cup Elements(rest)
        /\ DOMAIN front = 1..n /\ DOMAIN rest = 1..(Len(local[p]) - n)
        /\ DOMAIN local[p] = 1..Len(local[p])
        /\ \A i \in 1..n : front[i] = local[p][i]
        /\ \A i \in 1..(Len(local[p]) - n) : rest[i] = local[p][n + i]
    BY <1>1, <2>1, <2>3, SplitOrder
  <2> HIDE DEF front, rest
  <2>6. /\ \A i \in DOMAIN front : i \in DOMAIN local[p]
        /\ \A i \in DOMAIN rest : n + i \in DOMAIN local[p]
    BY <1>1, <2>1, <2>5
  <2>7. Precedes(buf, front) /\ Precedes(buf, rest)
    <3>1. ASSUME NEW i \in DOMAIN buf, NEW j \in DOMAIN front, buf[i][1] = front[j][1]
          PROVE  buf[i][2] < front[j][2]
      BY <2>3, <2>5, <2>6, <3>1 DEF Precedes
    <3>2. ASSUME NEW i \in DOMAIN buf, NEW j \in DOMAIN rest, buf[i][1] = rest[j][1]
          PROVE  buf[i][2] < rest[j][2]
      BY <2>3, <2>5, <2>6, <3>2 DEF Precedes
    <3>. QED BY <3>1, <3>2 DEF Precedes
  <2>8. Ascending(buf') /\ Elements(buf') = Elements(buf) \cup Elements(front)
    BY <1>1, <2>2, <2>3, <2>4, <2>5, <2>7, ConcatOrder
  <2>9. /\ DOMAIN buf' = 1..(Len(buf) + n) /\ DOMAIN buf = 1..Len(buf)
        /\ \A i \in 1..(Len(buf) + n) :
              buf'[i] = IF i <= Len(buf) THEN buf[i] ELSE front[i - Len(buf)]
    BY <1>1, <2>2, <2>4, ConcatProperties, LenProperties
  <2>10. \A i \in DOMAIN buf' : \/ i \in DOMAIN buf /\ buf'[i] = buf[i]
                                \/ i - Len(buf) \in DOMAIN front /\ buf'[i] = front[i - Len(buf)]
    BY <1>1, <2>1, <2>5, <2>9
  <2>11. local'[p] = rest /\ \A u \in Threads \ {p} : local'[u] = local[u]
    BY <1>1, <2>2
  <2>12. pushed' = pushed
    BY DEF Enqueue
  <2>13. ASSUME NEW i \in DOMAIN front
         PROVE  front[i][1] = p /\ front[i][2] <= pushed[p]
    BY <2>5, <2>6 DEF InOrder
  <2>14. ASSUME NEW i \in DOMAIN rest
         PROVE  rest[i][1] = p /\ rest[i][2] <= pushed[p]
    BY <2>5, <2>6 DEF InOrder
  <2>15. \A i \in DOMAIN buf' : buf'[i][2] <= pushed'[buf'[i][1]]
    BY <2>10, <2>12, <2>13 DEF InOrder
  <2>16. Precedes(buf', rest)
    <3>1. ASSUME NEW i \in DOMAIN buf', NEW j \in DOMAIN rest, buf'[i][1] = rest[j][1]
          PROVE  buf'[i][2] < rest[j][2]
      <4>1. CASE i \in DOMAIN buf /\ buf'[i] = buf[i]
        BY <2>7, <3>1, <4>1 DEF Precedes
      <4>2. CASE i - Len(buf) \in DOMAIN front /\ buf'[i] = front[i - Len(buf)]
        BY <2>5, <3>1, <4>2 DEF Precedes
      <4>. QED BY <2>10, <4>1, <4>2
    <3>. QED BY <3>1 DEF Precedes
  <2>17. ASSUME NEW q \in Producers \ {p}
         PROVE  /\ Ascending(local'[q]) /\ Precedes(buf', local'[q])
                /\ \A i \in DOMAIN local'[q] : local'[q][i][1] = q /\ local'[q][i][2] <= pushed'[q]
    <3>1. local'[q] = local[q]
      BY <2>11 DEF Threads
    <3>2. ASSUME NEW i \in DOMAIN buf', NEW j \in DOMAIN local[q], buf'[i][1] = local[q][j][1]
          PROVE  buf'[i][2] < local[q][j][2]
      <4>1. i \in DOMAIN buf /\ buf'[i] = buf[i]
        BY <2>10, <2>13, <3>2 DEF InOrder
      <4>. QED BY <3>2, <4>1 DEF InOrder, Precedes
    <3>. QED BY <2>12, <3>1, <3>2 DEF InOrder, Precedes
  <2>18. InOrder'
    BY <2>5, <2>8, <2>11, <2>12, <2>14, <2>15, <2>16, <2>17 DEF InOrder
  <2>. QED BY <2>5, <2>8, <2>11, <2>18
<1>. QED BY <1>2, <1>3 DEF Enqueue

LEMMA DequeueOrder ==
    ASSUME Inv, InOrder, NEW c \in Consumers, Dequeue(c)
    PROVE  InOrder'
<1>1. /\ c \in Threads /\ c \notin Producers /\ \A p \in Producers : p \in Threads
      /\ step[c] \in Nat \ {0} /\ buf \in Seq(Item) /\ Len(buf) \in Nat
      /\ local[c] = <<>> /\ Len(local[c]) = 0 /\ local \in [Threads -> Seq(Item)]
  BY BufferFacts, EmptySeq DEF Threads, Inv, TypeOK, Dequeue
<1>2. CASE UNCHANGED <<buf, local>>
  BY <1>2, OrderKept DEF Dequeue
<1>3. CASE buf # <<>>
  <2> DEFINE n == Least(step[c], Least(Len(buf), step[c] - Len(local[c])))
             front == First(n, buf)
             rest == Rest(n, buf)
  <2>1. n \in 0..Len(buf)
    BY <1>1 DEF Least
  <2>2. buf' = rest /\ local' = [local EXCEPT ![c] = @ \o front]
    BY <1>3 DEF Dequeue
  <2> HIDE DEF n
  <2>3. /\ Ascending(rest) /\ DOMAIN rest = 1..(Len(buf) - n) /\ DOMAIN buf = 1..Len(buf)
        /\ \A i \in 1..(Len(buf) - n) : rest[i] = buf[n + i]
    BY <1>1, <2>1, SplitOrder DEF InOrder
  <2> HIDE DEF front, rest
  <2>4. \A i \in DOMAIN rest : n + i \in DOMAIN buf /\ rest[i] = buf[n + i]
    BY <1>1, <2>1, <2>3
  <2>5. pushed' = pushed /\ \A p \in Producers : local'[p] = local[p]
    BY <1>1, <2>2 DEF Dequeue
  <2>6. ASSUME NEW p \in Producers PROVE Precedes(rest, local[p])
    BY <2>4 DEF InOrder, Precedes
  <2>7. \A i \in DOMAIN rest : rest[i][2] <= pushed[rest[i][1]]
    BY <2>4 DEF InOrder
  <2>. QED BY <2>2, <2>3, <2>5, <2>6, <2>7 DEF InOrder
<1>. QED BY <1>2, <1>3 DEF Dequeue

\* The other steps leave the shared buffer and the buffers of the producers alone.
LEMMA FinishOrder ==
    ASSUME Inv, NEW t \in Threads, Finish(t)
    PROVE  \A p \in Producers : local'[p] = local[p]
<1>1. CASE t \in Consumers
  <2>1. local' = [local EXCEPT ![t] = Tail(@)]
    BY <1>1 DEF Finish, PopLocal
  <2>. QED BY <1>1, <2>1 DEF Inv, TypeOK, Threads
<1>2. CASE t \notin Consumers
  BY <1>2 DEF Finish
<1>. QED BY <1>1, <1>2

LEMMA ReconfigureOrder ==
    ASSUME Inv, NEW t \in Threads, Reconfigure(t)
    PROVE  buf' = buf /\ pushed' = pushed /\ \A p \in Producers : local'[p] = local[p]
BY FinishOrder DEF Reconfigure, Check, Resize, Clear, master

LEMMA QuietStep ==
    ASSUME \/ \E t \in Threads : Observer(t) \/ SpuriousWakeup(t)
           \/ \E p \in Producers : ForcePush(p) \/ Terminate(p) \/ MasterTerminate(p)
           \/ UNCHANGED vars
    PROVE  UNCHANGED <<buf, local, pushed, taken>>
BY DEF Observer, RaiseFlag, WriteNewStep, SpuriousWakeup, ForcePush, Terminate, MasterTerminate,
       vars, master

LEMMA NextOrder ==
    ASSUME Inv, InOrder, [Next]_vars
    PROVE  InOrder'
<1>1. ASSUME NEW p \in Producers, Producer(p) PROVE InOrder'
  <2>1. CASE Push(p)
    BY <2>1, PushOrder
  <2>2. CASE Enqueue(p)
    BY <2>2, EnqueueOrder
  <2>3. CASE ForcePush(p) \/ Terminate(p) \/ MasterTerminate(p)
    BY <2>3, QuietStep, OrderKept
  <2>. QED BY <1>1, <2>1, <2>2, <2>3 DEF Producer
<1>2. ASSUME NEW c \in Consumers, Consumer(c) PROVE InOrder'
  BY <1>2, DequeueOrder DEF Consumer
<1>3. ASSUME NEW t \in Threads, Reconfigure(t) PROVE InOrder'
  BY <1>3, ReconfigureOrder, OrderKept
<1>4. CASE \/ \E t \in Threads : Observer(t) \/ SpuriousWakeup(t)
           \/ UNCHANGED vars
  BY <1>4, QuietStep, OrderKept
<1>. QED BY <1>1, <1>2, <1>3, <1>4 DEF Next, Finished
---------------------------------------------------------------------------------
(* Every step is one of the channel, or none. *)

LEMMA InitOrder == Init => InOrder
<1>1. DOMAIN <<>> = {} /\ Len(<<>>) = 0
  OBVIOUS
<1>. QED BY <1>1 DEF Init, InOrder, Ascending, Precedes, Threads

LEMMA InitChannel == Init => Abstract!Init
<1> SUFFICES ASSUME Init PROVE Abstract!Init
  OBVIOUS
<1> USE DEF Init
<1>1. Elements(<<>>) = {}
  BY DEF Elements
<1>2. Elements(buf) \cup UNION {Elements(local[p]) : p \in Producers} = {}
  BY <1>1 DEF Threads
<1>3. [c \in Consumers |-> local[c]] = [c \in Consumers |-> <<>>]
  BY DEF Threads
<1>4. {p \in Producers : pc[p] = "done"} = {} /\ {c \in Consumers : pc[c] = "done"} = {}
  BY DEF Threads
<1>. QED BY <1>2, <1>3, <1>4 DEF Abstract!Init

\* The unclaimed items, and what is left of them without the ones of p.
Unclaimed == Elements(buf) \cup UNION {Elements(local[p]) : p \in Producers}
OfOthers(p) == UNION {Elements(local[q]) : q \in Producers \ {p}}

LEMMA SplitUnclaimed ==
    ASSUME NEW p \in Producers, \A q \in Producers \ {p} : local'[q] = local[q]
    PROVE  /\ Unclaimed = Elements(buf) \cup Elements(local[p]) \cup OfOthers(p)
           /\ Unclaimed' = Elements(buf') \cup Elements(local'[p]) \cup OfOthers(p)
<1>1. Unclaimed = Elements(buf) \cup Elements(local[p]) \cup OfOthers(p)
  BY DEF Unclaimed, OfOthers
<1>2. UNION {Elements(local'[q]) : q \in Producers \ {p}} = OfOthers(p)
  BY DEF OfOthers
<1>3. Unclaimed' = Elements(buf') \cup UNION {Elements(local'[q]) : q \in Producers}
  BY DEF Unclaimed, Elements
<1>. QED BY <1>1, <1>2, <1>3

Claimed == [c \in Consumers |-> local[c]]
Closed == {p \in Producers : pc[p] = "done"}
Ended == {c \in Consumers : pc[c] = "done"}

LEMMA StutterStep ==
    ASSUME pushed' = pushed, Unclaimed' = Unclaimed, Claimed' = Claimed, taken' = taken,
           Closed' = Closed, Ended' = Ended
    PROVE  [Abstract!Next]_Abstract!vars
BY DEF Abstract!vars, Unclaimed, Claimed, Closed, Ended

LEMMA PushRefines ==
    ASSUME Inv, InOrder, NEW p \in Producers, Push(p)
    PROVE  [Abstract!Next]_Abstract!vars
<1>1. /\ Elements(local'[p]) = Elements(local[p]) \cup {<<p, pushed[p] + 1>>}
      /\ \A u \in Threads \ {p} : local'[u] = local[u]
  BY PushOrder
<1>2. p \in Threads /\ p \notin Consumers /\ pc \in [Threads -> Label] /\ pc[p] = "ready"
  BY DEF Threads, Inv, TypeOK, Push
<1>3. \A q \in Producers \ {p} : local'[q] = local[q]
  BY <1>1 DEF Threads
<1>4. Unclaimed' = Unclaimed \cup {<<p, pushed[p] + 1>>}
  <2>1. buf' = buf
    BY DEF Push, master
  <2>. QED BY <1>1, <1>3, <2>1, SplitUnclaimed
<1>5. Claimed' = Claimed
  BY <1>1, <1>2 DEF Claimed, Threads
<1>6. pc'[p] # "done" /\ \A u \in Threads \ {p} : pc'[u] = pc[u]
  BY <1>2 DEF Push, Goto
<1>7. Closed' = Closed /\ Ended' = Ended /\ p \notin Closed
  BY <1>2, <1>6 DEF Closed, Ended, Threads
<1>8. pushed[p] < N /\ pushed' = [pushed EXCEPT ![p] = @ + 1] /\ taken' = taken
  BY DEF Push
<1>9. Abstract!Send(p)
  BY <1>4, <1>5, <1>7, <1>8 DEF Abstract!Send, Unclaimed, Claimed, Closed, Ended
<1>. QED BY <1>9 DEF Abstract!Next

LEMMA EnqueueRefines ==
    ASSUME Inv, InOrder, NEW p \in Producers, Enqueue(p)
    PROVE  [Abstract!Next]_Abstract!vars
<1>1. /\ Elements(buf') \cup Elements(local'[p]) = Elements(buf) \cup Elements(local[p])
      /\ \A u \in Threads \ {p} : local'[u] = local[u]
  BY EnqueueOrder
<1>2. p \in Threads /\ p \notin Consumers /\ pc \in [Threads -> Label]
      /\ pc[p] \in {"enqueue", "flush", "terminate"}
  BY DEF Threads, Inv, TypeOK, Enqueue
<1>3. \A q \in Producers \ {p} : local'[q] = local[q]
  BY <1>1 DEF Threads
<1>4. Unclaimed' = Unclaimed
  BY <1>1, <1>3, SplitUnclaimed
<1>5. Claimed' = Claimed
  BY <1>1, <1>2 DEF Claimed, Threads
<1>6. pc'[p] # "done" /\ \A u \in Threads \ {p} : pc'[u] = pc[u]
  BY <1>2 DEF Enqueue, Goto, AfterEnqueue
<1>7. Closed' = Closed /\ Ended' = Ended
  BY <1>2, <1>6 DEF Closed, Ended, Threads
<1>. QED BY <1>4, <1>5, <1>7, StutterStep DEF Enqueue

LEMMA MasterTerminateRefines ==
    ASSUME Inv, NEW p \in Producers, MasterTerminate(p)
    PROVE  [Abstract!Next]_Abstract!vars
<1>1. p \in Threads /\ p \notin Consumers /\ pc \in [Threads -> Label] /\ pc[p] # "done"
  BY DEF Threads, Inv, TypeOK, MasterTerminate
<1>2. pc'[p] = "done" /\ \A u \in Threads \ {p} : pc'[u] = pc[u]
  BY <1>1 DEF MasterTerminate, Goto
<1>3. Closed' = Closed \cup {p} /\ Ended' = Ended /\ p \notin Closed
  BY <1>1, <1>2 DEF Closed, Ended, Threads
<1>4. UNCHANGED <<buf, local, pushed, taken>>
  BY QuietStep
<1>5. Unclaimed' = Unclaimed /\ Claimed' = Claimed
  BY <1>4 DEF Unclaimed, Claimed
<1>6. Abstract!Close(p)
  BY <1>3, <1>4, <1>5 DEF Abstract!Close, Unclaimed, Claimed, Closed, Ended
<1>. QED BY <1>6 DEF Abstract!Next

LEMMA DequeueRefines ==
    ASSUME Inv, InOrder, NEW c \in Consumers, Dequeue(c)
    PROVE  [Abstract!Next]_Abstract!vars
<1>1. /\ c \in Threads /\ c \notin Producers /\ pc \in [Threads -> Label] /\ pc[c] = "ready"
      /\ step[c] \in Nat \ {0} /\ buf \in Seq(Item) /\ Len(buf) \in Nat
      /\ local[c] = <<>> /\ Len(local[c]) = 0 /\ local \in [Threads -> Seq(Item)]
  BY BufferFacts, EmptySeq DEF Threads, Inv, TypeOK, Dequeue
<1>2. pushed' = pushed /\ taken' = taken
  BY DEF Dequeue
<1>3. CASE UNCHANGED <<buf, local, pc>>
  <2>1. Unclaimed' = Unclaimed /\ Claimed' = Claimed /\ Closed' = Closed /\ Ended' = Ended
    BY <1>3 DEF Unclaimed, Claimed, Closed, Ended
  <2>. QED BY <1>2, <2>1, StutterStep
<1>4. CASE buf = <<>> /\ Terminated /\ Goto(c, "done") /\ UNCHANGED <<buf, local>>
  <2>1. pc'[c] = "done" /\ \A u \in Threads \ {c} : pc'[u] = pc[u]
    BY <1>1, <1>4 DEF Goto
  <2>2. Ended' = Ended \cup {c} /\ Closed' = Closed /\ c \notin Ended
    BY <1>1, <2>1 DEF Closed, Ended, Threads
  <2>3. Gone = Producers
    BY <1>4, CountGone DEF Inv, Terminated
  <2>4. Closed = Producers /\ \A p \in Producers : local[p] = <<>>
    BY <2>3 DEF Gone, Closed, Inv, ProducerBuffers
  <2>5. Unclaimed = {}
    <3>1. Elements(<<>>) = {}
      BY DEF Elements
    <3>. QED BY <1>4, <2>4, <3>1 DEF Unclaimed
  <2>6. Unclaimed' = Unclaimed /\ Claimed' = Claimed /\ Claimed[c] = <<>>
    BY <1>1, <1>4 DEF Unclaimed, Claimed
  <2>7. Abstract!End(c)
    BY <1>2, <2>2, <2>4, <2>5, <2>6 DEF Abstract!End, Unclaimed, Claimed, Closed, Ended
  <2>. QED BY <2>7 DEF Abstract!Next
<1>5. CASE buf # <<>>
  <2> DEFINE n == Least(step[c], Least(Len(buf), step[c] - Len(local[c])))
             front == First(n, buf)
             batch == Elements(front)
             others == UNION {Elements(local[p]) : p \in Producers}
  <2>1. n \in 1..Len(buf)
    BY <1>1, <1>5, EmptySeq DEF Least
  <2>2. /\ local' = [local EXCEPT ![c] = @ \o front]
        /\ buf' = Rest(n, buf)
        /\ pc' = pc
    BY <1>5 DEF Dequeue
  <2> HIDE DEF n
  <2>3. \A y \in others : \E p \in Producers : \E j \in DOMAIN local[p] : y = local[p][j]
    BY DEF Elements
  <2>4. \A i \in DOMAIN buf, y \in others : buf[i][1] = y[1] => buf[i][2] < y[2]
    BY <2>3 DEF InOrder, Precedes
  <2>5. ASSUME NEW y \in others PROVE y \in Item
    <3>1. PICK p \in Producers : \E j \in DOMAIN local[p] : y = local[p][j]
      BY <2>3
    <3>2. p \in Threads
      BY DEF Threads
    <3>. QED BY <3>1, <3>2, BufferFacts
  <2> HIDE DEF others
  <2>6. /\ batch # {} /\ batch \subseteq Elements(buf) \cup others
        /\ \A x \in batch, y \in Elements(buf) \cup others : Abstract!Older(y, x) => y \in batch
        /\ Elements(Rest(n, buf)) \cup others = (Elements(buf) \cup others) \ batch
        /\ front \in Abstract!Arrangements(batch)
    BY <1>1, <2>1, <2>4, <2>5, ClaimableBatch DEF InOrder
  <2> HIDE DEF front, batch
  <2>7. Unclaimed = Elements(buf) \cup others
    BY DEF Unclaimed, others
  <2>8. Unclaimed' = Unclaimed \ batch
    <3>1. \A p \in Producers : local'[p] = local[p]
      BY <1>1, <2>2 DEF Threads
    <3>2. UNION {Elements(local'[p]) : p \in Producers} = others
      BY <3>1 DEF others
    <3>3. Unclaimed' = Elements(buf') \cup UNION {Elements(local'[p]) : p \in Producers}
      BY DEF Unclaimed, Elements
    <3>. QED BY <2>2, <2>6, <2>7, <3>2, <3>3
  <2>9. Claimed' = [Claimed EXCEPT ![c] = @ \o front]
    BY <1>1, <2>2 DEF Claimed, Threads
  <2>10. Closed' = Closed /\ Ended' = Ended
    BY <2>2 DEF Closed, Ended
  <2>11. PICK b : b = batch
    OBVIOUS
  <2>12. b \in SUBSET Unclaimed /\ Abstract!Claim(c, b)
    BY <1>2, <2>6, <2>7, <2>8, <2>9, <2>10, <2>11
    DEF Abstract!Claim, Unclaimed, Claimed, Closed, Ended
  <2>13. \E d \in SUBSET Unclaimed : Abstract!Claim(c, d)
    BY <2>12
  <2>. QED BY <2>13 DEF Abstract!Next, Unclaimed
<1>. QED BY <1>3, <1>4, <1>5 DEF Dequeue

\* The end of push is invisible, the end of pop is the receipt of an item.
LEMMA FinishRefines ==
    ASSUME Inv, NEW t \in Threads, Finish(t), pc[t] # "done",
           t \in Consumers => local[t] # <<>>,
           buf' = buf, pushed' = pushed
    PROVE  [Abstract!Next]_Abstract!vars
<1>1. /\ pc \in [Threads -> Label] /\ local \in [Threads -> Seq(Item)]
      /\ taken \in [Consumers -> Seq(Item)]
      /\ \A u \in Threads \ {t} : pc'[u] = pc[u]
      /\ pc'[t] = "ready"
  BY FinishLocal DEF Inv, TypeOK
<1>2. Closed' = Closed /\ Ended' = Ended
  BY <1>1 DEF Closed, Ended, Threads
<1>3. Unclaimed' = Unclaimed
  <2>1. \A p \in Producers : local'[p] = local[p]
    BY FinishOrder
  <2>2. UNION {Elements(local'[p]) : p \in Producers} = UNION {Elements(local[p]) : p \in Producers}
    BY <2>1
  <2>3. Unclaimed' = Elements(buf') \cup UNION {Elements(local'[p]) : p \in Producers}
    BY DEF Unclaimed, Elements
  <2>. QED BY <2>2, <2>3 DEF Unclaimed
<1>4. CASE t \in Consumers
  <2>1. /\ taken' = [taken EXCEPT ![t] = Append(@, Head(local[t]))]
        /\ local' = [local EXCEPT ![t] = Tail(@)]
    BY <1>4 DEF Finish, PopLocal
  <2>2. Claimed[t] = local[t] /\ Claimed' = [Claimed EXCEPT ![t] = Tail(@)]
    BY <1>1, <1>4, <2>1 DEF Claimed, Threads
  <2>3. Abstract!Receive(t)
    BY <1>2, <1>3, <1>4, <2>1, <2>2 DEF Abstract!Receive, Unclaimed, Claimed, Closed, Ended
  <2>. QED BY <1>4, <2>3 DEF Abstract!Next
<1>5. CASE t \notin Consumers
  <2>1. taken' = taken /\ local' = local
    BY <1>5 DEF Finish
  <2>2. Claimed' = Claimed
    BY <2>1 DEF Claimed
  <2>. QED BY <1>2, <1>3, <2>1, <2>2, StutterStep
<1>. QED BY <1>4, <1>5

LEMMA ReconfigureRefines ==
    ASSUME Inv, NEW t \in Threads, Reconfigure(t)
    PROVE  [Abstract!Next]_Abstract!vars
<1>1. /\ buf' = buf /\ pushed' = pushed /\ pc[t] # "done"
      /\ t \in Consumers => local[t] # <<>>
  BY ReconfigureOrder DEF Reconfigure, Check, Resize, Clear, Inv, ConsumerBuffers, Threads
<1>2. CASE Finish(t)
  BY <1>1, <1>2, FinishRefines
<1>3. CASE UNCHANGED <<local, taken>> /\ (Goto(t, "resize") \/ Goto(t, "clear"))
  <2>1. pc'[t] # "done" /\ \A u \in Threads \ {t} : pc'[u] = pc[u]
    BY <1>3 DEF Goto, Inv, TypeOK
  <2>2. Closed' = Closed /\ Ended' = Ended
    BY <1>1, <2>1 DEF Closed, Ended, Threads
  <2>3. Unclaimed' = Unclaimed /\ Claimed' = Claimed
    BY <1>1, <1>3 DEF Unclaimed, Claimed
  <2>. QED BY <1>1, <1>3, <2>2, <2>3, StutterStep
<1>. QED BY <1>2, <1>3 DEF Reconfigure, Check, Resize, Clear

LEMMA QuietRefines ==
    ASSUME Inv,
           \/ \E t \in Threads : Observer(t) \/ SpuriousWakeup(t)
           \/ \E p \in Producers : ForcePush(p) \/ Terminate(p)
           \/ UNCHANGED vars
    PROVE  [Abstract!Next]_Abstract!vars
<1>1. UNCHANGED <<buf, local, pushed, taken>>
  BY QuietStep
<1>2. Unclaimed' = Unclaimed /\ Claimed' = Claimed
  BY <1>1 DEF Unclaimed, Claimed
<1>3. Closed' = Closed /\ Ended' = Ended
  <2>1. CASE \E p \in Producers : ForcePush(p) \/ Terminate(p)
    <3>1. PICK p \in Producers : /\ p \in Threads /\ p \notin Consumers
                                 /\ pc[p] # "done" /\ pc'[p] # "done"
                                 /\ \A u \in Threads \ {p} : pc'[u] = pc[u]
      BY <2>1 DEF ForcePush, Terminate, Goto, Inv, TypeOK, Threads
    <3>. QED BY <3>1 DEF Closed, Ended, Threads
  <2>2. CASE pc' = pc
    BY <2>2 DEF Closed, Ended
  <2>. QED BY <2>1, <2>2 DEF Observer, RaiseFlag, WriteNewStep, SpuriousWakeup, vars
<1>. QED BY <1>1, <1>2, <1>3, StutterStep

(***************************************************************************)
(* The queue implements the channel: whatever the steps, their changes,    *)
(* the capacity and the interleaving, no item is lost, duplicated or       *)
(* overtaken by a later one of its producer (naive_queue.hpp, enqueue,     *)
(* dequeue, push and pop).                                                 *)
(***************************************************************************)
THEOREM NaiveQueueImplementsChannel == Spec => ImplementsChannel
<1>1. ASSUME Inv, InOrder, [Next]_vars PROVE [Abstract!Next]_Abstract!vars
  <2>1. ASSUME NEW p \in Producers, Producer(p) PROVE [Abstract!Next]_Abstract!vars
    BY <1>1, <2>1, PushRefines, EnqueueRefines, MasterTerminateRefines, QuietRefines DEF Producer
  <2>2. ASSUME NEW c \in Consumers, Consumer(c) PROVE [Abstract!Next]_Abstract!vars
    BY <1>1, <2>2, DequeueRefines DEF Consumer
  <2>3. ASSUME NEW t \in Threads, Reconfigure(t) PROVE [Abstract!Next]_Abstract!vars
    BY <1>1, <2>3, ReconfigureRefines
  <2>4. CASE (\E t \in Threads : Observer(t) \/ SpuriousWakeup(t)) \/ UNCHANGED vars
    BY <1>1, <2>4, QuietRefines
  <2>. QED BY <1>1, <2>1, <2>2, <2>3, <2>4 DEF Next, Finished
<1>2. Spec => []InOrder
  <2>1. Inv /\ InOrder /\ [Next]_vars => InOrder'
    BY NextOrder
  <2>. QED BY <2>1, InitOrder, InvHolds, PTL DEF Spec
<1>. QED BY <1>1, <1>2, InitChannel, InvHolds, PTL DEF Spec, ImplementsChannel, Abstract!Spec
---------------------------------------------------------------------------------
(***************************************************************************)
(* One request.  It is either being written, or raised and still pending,  *)
(* or applied; a thread that is past the load of the flag works on it, and *)
(* nobody writes another step meanwhile.                                   *)
(***************************************************************************)
OneRequest ==
    \A t \in Threads :
        /\ asked[t] > 0 => asked[t] >= MaxRequests /\ ~asking[t]
        /\ needReconfigure[t] \/ pc[t] \in {"resize", "clear"} => asked[t] > 0
        /\ pc[t] = "clear" => step[t] = newStep[t]
        /\ asked[t] > 0 /\ ~needReconfigure[t] => step[t] = newStep[t]

\* The steps of a thread on its own request.
LEMMA ReconfigureRequest ==
    ASSUME Inv, OneRequest, NEW t \in Threads, Reconfigure(t)
    PROVE  OneRequest'
<1>1. /\ pc \in [Threads -> Label] /\ step \in [Threads -> Nat \ {0}]
      /\ needReconfigure \in [Threads -> BOOLEAN]
  BY DEF Inv, TypeOK
<1>2. asked' = asked /\ asking' = asking /\ newStep' = newStep
  BY DEF Reconfigure, Check, Resize, Clear, request
<1>3. \A u \in Threads \ {t} : /\ pc'[u] = pc[u] /\ step'[u] = step[u]
                               /\ needReconfigure'[u] = needReconfigure[u]
  BY <1>1 DEF Reconfigure, Check, Resize, Clear, Finish, Goto, request
<1>4. /\ needReconfigure'[t] \/ pc'[t] \in {"resize", "clear"} => asked[t] > 0
      /\ pc'[t] = "clear" => step'[t] = newStep[t]
      /\ asked[t] > 0 /\ ~needReconfigure'[t] => step'[t] = newStep[t]
  <2>1. CASE Check(t)
    <3>1. step' = step /\ needReconfigure' = needReconfigure
          /\ pc'[t] = IF needReconfigure[t] THEN "resize" ELSE "ready"
      BY <1>1, <2>1 DEF Check, Finish, Goto, request
    <3>. QED BY <3>1 DEF OneRequest
  <2>2. CASE Resize(t)
    <3>1. needReconfigure' = needReconfigure /\ asked[t] > 0
      BY <2>2 DEF Resize, request, OneRequest
    <3>2. \/ pc'[t] = "clear" /\ step'[t] = newStep[t]
          \/ pc'[t] = "ready" /\ step' = step
      BY <1>1, <2>2 DEF Resize, Finish, Goto
    <3>. QED BY <3>1, <3>2 DEF OneRequest
  <2>3. CASE Clear(t)
    <3>1. pc'[t] = "ready" /\ ~needReconfigure'[t] /\ step' = step
      BY <1>1, <2>3 DEF Clear, Finish, Goto
    <3>2. step[t] = newStep[t]
      BY <2>3 DEF Clear, OneRequest
    <3>. QED BY <3>1, <3>2
  <2>. QED BY <2>1, <2>2, <2>3 DEF Reconfigure
<1>. QED BY <1>2, <1>3, <1>4 DEF OneRequest

\* The steps of the observer, which writes no step once it has asked.
LEMMA ObserverRequest ==
    ASSUME MaxRequests <= 1, Inv, OneRequest, NEW t \in Threads, Observer(t)
    PROVE  OneRequest'
<1>1. /\ asked \in [Threads -> Nat] /\ asking \in [Threads -> BOOLEAN]
      /\ newStep \in [Threads -> Nat] /\ needReconfigure \in [Threads -> BOOLEAN]
      /\ MaxRequests \in Nat
  BY DEF Inv, TypeOK
<1>2. CASE RaiseFlag(t)
  <2>1. pc' = pc /\ step' = step /\ newStep' = newStep
    BY <1>2 DEF RaiseFlag
  <2>2. \A u \in Threads \ {t} : /\ asked'[u] = asked[u] /\ asking'[u] = asking[u]
                                 /\ needReconfigure'[u] = needReconfigure[u]
    BY <1>1, <1>2 DEF RaiseFlag
  <2>3. asked'[t] = asked[t] + 1 /\ ~asking'[t] /\ needReconfigure'[t] /\ asked[t] \in Nat
    BY <1>1, <1>2 DEF RaiseFlag
  <2>4. pc[t] # "clear"
    BY <1>2, <2>3 DEF RaiseFlag, OneRequest
  <2>. QED BY <1>1, <2>1, <2>2, <2>3, <2>4 DEF OneRequest
<1>3. ASSUME NEW s \in NewSteps, WriteNewStep(t, s)
      PROVE  OneRequest'
  <2>1. UNCHANGED <<pc, step, asked, needReconfigure>>
    BY <1>3 DEF WriteNewStep
  <2>2. \A u \in Threads \ {t} : asking'[u] = asking[u] /\ newStep'[u] = newStep[u]
    BY <1>1, <1>3 DEF WriteNewStep
  <2>3. asked[t] = 0
    BY <1>1, <1>3 DEF WriteNewStep
  <2>. QED BY <1>1, <2>1, <2>2, <2>3 DEF OneRequest
<1>. QED BY <1>2, <1>3 DEF Observer

LEMMA NextRequest ==
    ASSUME MaxRequests <= 1, Inv, OneRequest, [Next]_vars
    PROVE  OneRequest'
<1>1. ASSUME UNCHANGED <<step, request>>,
             \A t \in Threads : pc'[t] \in {"resize", "clear"} => pc'[t] = pc[t]
      PROVE  OneRequest'
  BY <1>1 DEF OneRequest, request
<1>2. ASSUME NEW p \in Producers, Producer(p) PROVE OneRequest'
  <2>1. UNCHANGED <<step, request>>
    BY <1>2 DEF Producer, Push, ForcePush, Terminate, Enqueue, MasterTerminate
  <2>2. pc \in [Threads -> Label] /\ p \in Threads
    BY DEF Inv, TypeOK, Threads
  <2>3. \/ pc' = pc
        \/ \E label \in {"enqueue", "check", "flush", "ready", "terminate", "done"} : Goto(p, label)
    BY <1>2 DEF Producer, Push, ForcePush, Terminate, Enqueue, MasterTerminate, AfterEnqueue
  <2>. QED BY <1>1, <2>1, <2>2, <2>3 DEF Goto
<1>3. ASSUME NEW c \in Consumers, Consumer(c) PROVE OneRequest'
  <2>1. UNCHANGED <<step, request>> /\ (pc' = pc \/ Goto(c, "done"))
    BY <1>3 DEF Consumer, Dequeue
  <2>2. pc \in [Threads -> Label] /\ c \in Threads
    BY DEF Inv, TypeOK, Threads
  <2>. QED BY <1>1, <2>1, <2>2 DEF Goto
<1>4. CASE (\E t \in Threads : SpuriousWakeup(t)) \/ UNCHANGED vars
  BY <1>1, <1>4 DEF SpuriousWakeup, vars
<1>. QED BY <1>2, <1>3, <1>4, ReconfigureRequest, ObserverRequest DEF Next, Finished

(***************************************************************************)
(* A single request of the observer is never forgotten, wherever the       *)
(* thread stands when the flag goes up and however often its resize is     *)
(* refused.  The hypothesis is needed: with a second one, the plain stores *)
(* that end a reconfiguration may take down a flag that was just raised.   *)
(***************************************************************************)
THEOREM SingleRequestTakesEffect ==
    ASSUME MaxRequests <= 1
    PROVE  Spec => []RequestTakesEffect
<1>1. Init => OneRequest
  BY DEF Init, OneRequest
<1>2. Inv /\ OneRequest /\ [Next]_vars => OneRequest'
  BY NextRequest
<1>3. OneRequest => RequestTakesEffect
  BY DEF OneRequest, RequestTakesEffect
<1>. QED BY <1>1, <1>2, <1>3, InvHolds, PTL DEF Spec
=================================================================================
