--------------------------- MODULE WavefrontProofs ---------------------------
(***************************************************************************)
(* For any number of threads, iterations and rows, and any step: whatever  *)
(* the synchronisation, a signal never announces work that is not done and *)
(* no thread computes a cell before the cells it reads.                    *)
(***************************************************************************)
EXTENDS Wavefront, TLAPS

(***************************************************************************)
(* Where a thread of each kernel can be.                                   *)
(***************************************************************************)
Places ==
    \A t \in Thread:
        /\ m[t] \in 1 .. LastIteration(kernel) /\ j[t] \in FirstRow(kernel) .. DIM - 1
        /\ pc[t] = "end" => m[t] = LastIteration(kernel)
        /\ pc[t] = "setting" => kernel = "alt_bit" /\ ~Last(t)
        /\ pc[t] = "got" => ~First(t) /\ (kernel = "alt_bit" \/ StepKernel)
        /\ pc[t] = "immediate" => kernel = "static_step" /\ j[t] = DIM - 1
        /\ pc[t] \in {"set", "setting"} /\ kernel # "lu" /\ ~PerRow => j[t] = DIM - 1

(***************************************************************************)
(* The cells of its own that a thread has behind it.                       *)
(***************************************************************************)
Updated(t) == kernel # "lu" /\ pc[t] \in {"set", "setting", "immediate"}
Past(t, i, r) ==
    \/ pc[t] = "end"
    \/ i < m[t]
    \/ i = m[t] /\ r < j[t]
    \/ i = m[t] /\ r = j[t] /\ Updated(t)

OwnDone ==
    \A t \in Thread, i \in 1 .. LastIteration(kernel), r \in FirstRow(kernel) .. DIM - 1:
        Past(t, i, r) => <<t, i, r>> \in done

\* What TypeOK says of the threads
Positions ==
    /\ kernel \in AllKernels /\ step \in Nat \ {0}
    /\ pc \in [Thread -> PCs] /\ m \in [Thread -> Iteration] /\ j \in [Thread -> 0 .. DIM - 1]

LEMMA Sizes == /\ N \in Nat /\ N >= 2 /\ DIM \in Nat /\ DIM >= 2 /\ ITERATIONS \in Nat /\ ITERATIONS >= 2
               /\ LastIteration(kernel) \in Iteration /\ FirstRow(kernel) \in 0 .. 1
  BY TeamAssumption, SizesAssumption DEF LastIteration, FirstRow, Iteration

\* A step moves one thread, and only to where its kernel can be
LEMMA PlacesStep ==
    ASSUME Positions, Places, NEW t \in Thread, Step(t)
    PROVE  /\ Positions' /\ Places'
           /\ kernel' = kernel /\ step' = step
           /\ \A u \in Thread \ {t}: pc'[u] = pc[u] /\ m'[u] = m[u] /\ j'[u] = j[u]
<1>. USE Sizes DEF Positions, Places, Iteration, PCs, choice, Go, Stay, AllKernels, HeatKernels,
        First, Last, PerRow, StepKernel, AfterGet
<1>1. CASE update(t)
  BY <1>1 DEF update, AfterUpdate, NextRow, NextIteration
<1>2. CASE NoLeft(t)
  BY <1>2 DEF NoLeft
<1>3. CASE NoRight(t)
  BY <1>3 DEF NoRight, AfterSet, NextRow, NextIteration
<1>4. CASE SeeRaised(t) \/ Lower(t)
  BY <1>4 DEF SeeRaised, Lower, FlagAction
<1>5. CASE SeeLowered(t) \/ Raise(t)
  BY <1>5 DEF SeeLowered, Raise, FlagAction, AfterSet, NextIteration
<1>6. CASE CounterSyncLeft(t) \/ CounterSyncRight(t)
  BY <1>6 DEF CounterSyncLeft, CounterSyncRight, AfterSet, NextIteration
<1>7. CASE NaiveGet(t) \/ NaiveSet(t)
  BY <1>7 DEF NaiveGet, NaiveSet, NaiveKernel, AfterSet, NextRow, NextIteration
<1>8. CASE GetSeen(t) \/ GetRemember(t)
  BY <1>8 DEF GetSeen, GetRemember
<1>9. CASE StepSet(t)
  <2>1. kernel' = kernel /\ step' = step
    BY <1>9 DEF StepSet, Publish
  <2>. QED BY <1>9, <2>1 DEF StepSet, AfterSet, NextRow, NextIteration
<1>10. CASE StepSetImmediate(t)
  <2>1. kernel' = kernel /\ step' = step
    BY <1>10 DEF StepSetImmediate, Publish
  <2>. QED BY <1>10, <2>1 DEF StepSetImmediate, NextIteration
<1>. QED BY <1>1, <1>2, <1>3, <1>4, <1>5, <1>6, <1>7, <1>8, <1>9, <1>10 DEF Step

(***************************************************************************)
(* What a step does to the cells: only update computes one, and a thread   *)
(* leaves a cell behind it only when it has computed it.                   *)
(***************************************************************************)
LEMMA DoneStep ==
    ASSUME NEW t \in Thread, Step(t)
    PROVE  \/ done' = done /\ ~update(t)
           \/ update(t) /\ done' = done \cup {<<t, m[t], j[t]>>}
  BY DEF Step, update, NoLeft, NoRight, SeeRaised, Lower, SeeLowered, Raise, FlagAction,
        CounterSyncLeft, CounterSyncRight, NaiveGet, NaiveSet, GetSeen, GetRemember, StepSet,
        StepSetImmediate, Publish

\* The cell a thread is at is computed, or being computed by this step
AtDone(t) == Updated(t) \/ pc[t] = "update"

Move(t) ==
    \/ /\ m'[t] = m[t] /\ j'[t] = j[t] /\ pc'[t] # "end"
       /\ Updated(t)' => AtDone(t)
    \/ /\ AtDone(t) /\ m'[t] = m[t] /\ j'[t] = j[t] + 1
       /\ pc'[t] \in {"get", "update"}
    \/ /\ AtDone(t) /\ j[t] = DIM - 1
       /\ m'[t] = m[t] + 1 /\ j'[t] = FirstRow(kernel) /\ pc'[t] = "get"
    \/ /\ AtDone(t) /\ j[t] = DIM - 1
       /\ m[t] = LastIteration(kernel) /\ m'[t] = m[t] /\ j'[t] = j[t] /\ pc'[t] = "end"

LEMMA AfterSetMove ==
    ASSUME Positions, Places, NEW t \in Thread, pc[t] \in {"set", "setting"}, AfterSet(t),
           kernel' = kernel
    PROVE  Move(t)
<1>. USE Sizes DEF Positions, Places, Iteration, PCs, Go, Stay, Updated, AtDone, Move
<1>1. CASE kernel = "lu"
  BY <1>1 DEF AfterSet
<1>2. CASE kernel # "lu" /\ PerRow /\ j[t] < DIM - 1
  BY <1>2 DEF AfterSet, NextRow
<1>3. CASE kernel = "static_step" /\ j[t] = DIM - 1
  BY <1>3 DEF AfterSet, PerRow
<1>4. CASE kernel \notin {"lu", "static_step"} /\ j[t] = DIM - 1
  <2>1. NextIteration(t)
    BY <1>4 DEF AfterSet
  <2>. QED BY <1>4, <2>1 DEF NextIteration
<1>. QED BY <1>1, <1>2, <1>3, <1>4 DEF AllKernels, HeatKernels, PerRow

LEMMA MoveStep ==
    ASSUME Positions, Places, NEW t \in Thread, Step(t)
    PROVE  Move(t)
<1>. USE Sizes DEF Positions, Places, Iteration, PCs, choice, Go, Stay, AllKernels, HeatKernels,
        First, Last, PerRow, StepKernel, AfterGet, Updated, AtDone, Move
<1>1. CASE update(t)
  BY <1>1 DEF update, AfterUpdate, NextRow, NextIteration
<1>2. CASE NoLeft(t)
  BY <1>2 DEF NoLeft
<1>3. CASE NoRight(t)
  BY <1>3, AfterSetMove DEF NoRight, NextIteration
<1>4. CASE SeeRaised(t) \/ Lower(t)
  BY <1>4 DEF SeeRaised, Lower, FlagAction
<1>5. CASE SeeLowered(t) \/ Raise(t)
  BY <1>5, AfterSetMove DEF SeeLowered, Raise, FlagAction
<1>6. CASE CounterSyncLeft(t) \/ CounterSyncRight(t)
  BY <1>6, AfterSetMove DEF CounterSyncLeft, CounterSyncRight
<1>7. CASE NaiveGet(t) \/ NaiveSet(t)
  BY <1>7, AfterSetMove DEF NaiveGet, NaiveSet
<1>8. CASE GetSeen(t) \/ GetRemember(t)
  BY <1>8 DEF GetSeen, GetRemember
<1>9. CASE StepSet(t)
  <2>1. kernel' = kernel
    BY <1>9 DEF StepSet, Publish
  <2>. QED BY <1>9, <2>1, AfterSetMove DEF StepSet
<1>10. CASE StepSetImmediate(t)
  <2>1. kernel' = kernel
    BY <1>10 DEF StepSetImmediate, Publish
  <2>. QED BY <1>10, <2>1 DEF StepSetImmediate, NextIteration
<1>. QED BY <1>1, <1>2, <1>3, <1>4, <1>5, <1>6, <1>7, <1>8, <1>9, <1>10 DEF Step

LEMMA PastStep ==
    ASSUME Positions, Places, NEW t \in Thread, Move(t), kernel' = kernel,
           NEW i \in 1 .. LastIteration(kernel), NEW r \in FirstRow(kernel) .. DIM - 1,
           Past(t, i, r)'
    PROVE  Past(t, i, r) \/ (pc[t] = "update" /\ i = m[t] /\ r = j[t])
<1>1. i \in Int /\ r \in Int /\ m[t] \in Int /\ j[t] \in Int /\ r <= DIM - 1
      /\ FirstRow(kernel) \in Int /\ FirstRow(kernel) <= r
  BY Sizes DEF Positions, Iteration
<1>2. i <= LastIteration(kernel) /\ LastIteration(kernel) \in Int /\ DIM \in Int
  BY Sizes DEF Iteration
<1>. QED BY <1>1, <1>2 DEF Move, AtDone, Past, Updated

LEMMA OwnDoneStep ==
    ASSUME Positions, Places, OwnDone, NEW t \in Thread, Step(t)
    PROVE  OwnDone'
<1> SUFFICES ASSUME NEW u \in Thread, NEW i \in 1 .. LastIteration(kernel),
                    NEW r \in FirstRow(kernel) .. DIM - 1, Past(u, i, r)'
             PROVE  <<u, i, r>> \in done'
  BY PlacesStep DEF OwnDone, LastIteration, FirstRow
<1>1. done \subseteq done'
  BY DoneStep
<1>2. CASE u # t
  <2>1. Past(u, i, r)
    BY <1>2, PlacesStep DEF Past, Updated
  <2>. QED BY <1>1, <2>1 DEF OwnDone
<1>3. CASE u = t
  <2>1. CASE Past(t, i, r)
    BY <1>1, <1>3, <2>1 DEF OwnDone
  <2>2. CASE pc[t] = "update" /\ i = m[t] /\ r = j[t]
    <3>1. update(t)
      BY <2>2 DEF Step, NoLeft, NoRight, SeeRaised, Lower, SeeLowered, Raise, FlagAction,
            CounterSyncLeft, CounterSyncRight, NaiveGet, NaiveSet, GetSeen, GetRemember,
            StepSet, StepSetImmediate
    <3>. QED BY <1>3, <2>2, <3>1 DEF update
  <2>. QED BY <1>3, <2>1, <2>2, PastStep, MoveStep, PlacesStep
<1>. QED BY <1>2, <1>3
(***************************************************************************)
(* AltBitSynchronizer: a thread that has seen the flag of its neighbour    *)
(* raised finds it so when it lowers it, and the neighbour one that it has *)
(* seen lowered, since each of the two steps has one thread to take it.    *)
(***************************************************************************)
FlagsInv ==
    /\ _isync_flag \in [Thread -> BOOLEAN]
    /\ FlagsMeanWork
    /\ kernel = "alt_bit" => \A t \in HasRight:
           /\ pc[t] = "setting" => ~_isync_flag[t]
           /\ pc[t + 1] = "got" => _isync_flag[t]

\* A step of "alt_bit" signals or lets in one thread, once
LEMMA AltBitStep ==
    ASSUME Positions, Places, kernel = "alt_bit", NEW t \in Thread, Step(t)
    PROVE  \/ /\ _isync_flag' = _isync_flag /\ pc'[t] \notin {"got", "setting"}
              /\ ~Last(t) => Signalled(t)' = Signalled(t)
              /\ ~First(t) => LetInto(t)' = LetInto(t)
           \/ /\ ~First(t) /\ _isync_flag[t - 1] /\ pc'[t] = "got"
              /\ _isync_flag' = _isync_flag
              /\ Signalled(t)' = Signalled(t) /\ LetInto(t)' = LetInto(t)
           \/ /\ ~First(t) /\ pc[t] = "got" /\ pc'[t] = "update"
              /\ _isync_flag' = [_isync_flag EXCEPT ![t - 1] = FALSE]
              /\ Signalled(t)' = Signalled(t) /\ LetInto(t)' = LetInto(t) + 1
           \/ /\ ~Last(t) /\ ~_isync_flag[t] /\ pc'[t] = "setting"
              /\ _isync_flag' = _isync_flag
              /\ Signalled(t)' = Signalled(t) /\ LetInto(t)' = LetInto(t)
           \/ /\ ~Last(t) /\ pc[t] = "setting" /\ pc'[t] \notin {"got", "setting"}
              /\ _isync_flag' = [_isync_flag EXCEPT ![t] = TRUE]
              /\ Signalled(t)' = Signalled(t) + 1 /\ LetInto(t)' = LetInto(t)
<1>. USE Sizes DEF Positions, First, Last, Signalled, LetInto, Go, Stay, Iteration
<1>1. kernel' = kernel /\ ~PerRow /\ AfterGet = "update" /\ m[t] \in Nat
  BY PlacesStep DEF PerRow, AfterGet
<1>2. CASE update(t)
  BY <1>1, <1>2 DEF update, AfterUpdate, NextRow
<1>3. CASE NoLeft(t)
  BY <1>1, <1>3 DEF NoLeft
<1>4. CASE NoRight(t)
  <2>1. pc[t] = "set" /\ NextIteration(t)
    BY <1>1, <1>4 DEF NoRight, AfterSet, Places
  <2>. QED BY <1>1, <1>4, <2>1 DEF NoRight, NextIteration, Places
<1>5. CASE SeeRaised(t)
  BY <1>1, <1>5 DEF SeeRaised, FlagAction
<1>6. CASE Lower(t)
  BY <1>1, <1>6 DEF Lower, FlagAction, Places
<1>7. CASE SeeLowered(t)
  BY <1>1, <1>7 DEF SeeLowered, FlagAction
<1>8. CASE Raise(t)
  <2>1. pc[t] = "setting" /\ NextIteration(t)
    BY <1>1, <1>8 DEF Raise, FlagAction, AfterSet
  <2>. QED BY <1>1, <1>8, <2>1 DEF Raise, NextIteration, Places
<1>. QED BY <1>2, <1>3, <1>4, <1>5, <1>6, <1>7, <1>8
         DEF Step, CounterSyncLeft, CounterSyncRight, NaiveGet, NaiveSet, NaiveKernel, GetSeen,
             GetRemember, StepSet, StepSetImmediate, StepKernel

LEMMA FlagsStep ==
    ASSUME Positions, Places, FlagsInv, NEW t \in Thread, Step(t)
    PROVE  FlagsInv'
<1>1. /\ kernel' = kernel
      /\ \A u \in Thread \ {t}: pc'[u] = pc[u] /\ m'[u] = m[u]
  BY PlacesStep
<1>2. CASE kernel # "alt_bit"
  <2>1. _isync_flag' = _isync_flag
    BY <1>2 DEF Step, update, NoLeft, NoRight, SeeRaised, Lower, SeeLowered, Raise, FlagAction,
          CounterSyncLeft, CounterSyncRight, NaiveGet, NaiveSet, GetSeen, GetRemember, StepSet,
          StepSetImmediate, Publish
  <2>. QED BY <1>1, <1>2, <2>1 DEF FlagsInv, FlagsMeanWork
<1>3. CASE kernel = "alt_bit"
  <2>1. \A u \in Thread \ {t}: Signalled(u)' = Signalled(u) /\ LetInto(u)' = LetInto(u)
    BY <1>1 DEF Signalled, LetInto, LastIteration
  <2>2. \A u \in Thread: Signalled(u) \in Int /\ LetInto(u) \in Int
    BY Sizes DEF Signalled, LetInto, Positions, Iteration
  <2>3. _isync_flag' \in [Thread -> BOOLEAN]
    BY <1>3, AltBitStep DEF FlagsInv
  <2>4. ASSUME NEW u \in HasRight
        PROVE  /\ Signalled(u)' = LetInto(u + 1)' + (IF _isync_flag'[u] THEN 1 ELSE 0)
               /\ pc'[u] = "setting" => ~_isync_flag'[u]
               /\ pc'[u + 1] = "got" => _isync_flag'[u]
    <3>1. u \in Thread /\ u + 1 \in Thread /\ ~Last(u) /\ ~First(u + 1) /\ (u + 1) - 1 = u
      BY Sizes DEF HasRight, Thread, First, Last
    <3>2. /\ Signalled(u) = LetInto(u + 1) + (IF _isync_flag[u] THEN 1 ELSE 0)
          /\ pc[u] = "setting" => ~_isync_flag[u]
          /\ pc[u + 1] = "got" => _isync_flag[u]
      BY <1>3 DEF FlagsInv, FlagsMeanWork
    <3>3. CASE u = t
      <4>1. u + 1 # t /\ t - 1 # u
        BY <3>3, Sizes DEF HasRight
      <4>2. /\ Signalled(u) = Signalled(t) /\ Signalled(u)' = Signalled(t)'
            /\ LetInto(u + 1)' = LetInto(u + 1) /\ pc'[u + 1] = pc[u + 1]
        BY <1>1, <2>1, <3>1, <3>3, <4>1
      <4>. QED BY <1>3, <2>2, <3>1, <3>2, <3>3, <4>1, <4>2, AltBitStep DEF FlagsInv
    <3>4. CASE u + 1 = t
      <4>1. u # t /\ t - 1 = u
        BY <3>4, Sizes DEF HasRight
      <4>2. /\ LetInto(u + 1) = LetInto(t) /\ LetInto(u + 1)' = LetInto(t)'
            /\ pc[u + 1] = pc[t] /\ pc'[u + 1] = pc'[t]
        BY <3>4 DEF LetInto
      <4>. QED BY <1>1, <1>3, <2>1, <2>2, <3>1, <3>2, <4>1, <4>2, AltBitStep DEF FlagsInv
    <3>5. CASE u # t /\ u + 1 # t
      <4>1. t - 1 # u
        BY <3>1, <3>5 DEF Thread
      <4>2. _isync_flag'[u] = _isync_flag[u]
        BY <1>3, <3>1, <3>5, <4>1, AltBitStep DEF FlagsInv
      <4>. QED BY <1>1, <2>1, <3>1, <3>2, <3>5, <4>2
    <3>. QED BY <3>3, <3>4, <3>5
  <2>. QED BY <1>1, <2>3, <2>4 DEF FlagsInv, FlagsMeanWork, HasRight
<1>. QED BY <1>2, <1>3
(***************************************************************************)
(* CounterSynchronizer: a thread is let into an iteration by a counter     *)
(* that has passed it.                                                     *)
(***************************************************************************)
CountersInv ==
    /\ _isync_count \in [Thread -> 1 .. ITERATIONS]
    /\ CountersMeanWork
    /\ kernel = "counter" => \A t \in HasRight: LetInto(t + 1) <= Signalled(t)

\* A step of "counter" signals or lets in one thread
LEMMA CounterStep ==
    ASSUME Positions, Places, kernel = "counter", NEW t \in Thread, Step(t)
    PROVE  \/ /\ _isync_count' = _isync_count
              /\ ~Last(t) => Signalled(t)' = Signalled(t)
              /\ ~First(t) => LetInto(t)' = LetInto(t)
           \/ /\ ~First(t) /\ _isync_count[t - 1] > LetInto(t)'
              /\ _isync_count' = _isync_count /\ Signalled(t)' = Signalled(t)
           \/ /\ ~Last(t) /\ _isync_count' = [_isync_count EXCEPT ![t] = @ + 1]
              /\ Signalled(t)' = Signalled(t) + 1 /\ LetInto(t)' = LetInto(t)
<1>. USE Sizes DEF Positions, First, Last, Signalled, LetInto, Go, Stay, Iteration
<1>1. kernel' = kernel /\ ~PerRow /\ AfterGet = "update" /\ m[t] \in Nat
  BY PlacesStep DEF PerRow, AfterGet
<1>2. CASE update(t)
  BY <1>1, <1>2 DEF update, AfterUpdate, NextRow
<1>3. CASE NoLeft(t)
  BY <1>1, <1>3 DEF NoLeft
<1>4. CASE NoRight(t)
  <2>1. pc[t] = "set" /\ NextIteration(t)
    BY <1>1, <1>4 DEF NoRight, AfterSet, Places
  <2>. QED BY <1>1, <1>4, <2>1 DEF NoRight, NextIteration, Places
<1>5. CASE CounterSyncLeft(t)
  BY <1>1, <1>5 DEF CounterSyncLeft
<1>6. CASE CounterSyncRight(t)
  <2>1. pc[t] = "set" /\ NextIteration(t)
    BY <1>1, <1>6 DEF CounterSyncRight, AfterSet
  <2>. QED BY <1>1, <1>6, <2>1 DEF CounterSyncRight, NextIteration, Places
<1>. QED BY <1>2, <1>3, <1>4, <1>5, <1>6
         DEF Step, SeeRaised, Lower, SeeLowered, Raise, FlagAction, NaiveGet, NaiveSet,
             NaiveKernel, GetSeen, GetRemember, StepSet, StepSetImmediate, StepKernel

LEMMA CountersStep ==
    ASSUME Positions, Places, CountersInv, NEW t \in Thread, Step(t)
    PROVE  CountersInv'
<1>1. /\ kernel' = kernel
      /\ \A u \in Thread \ {t}: pc'[u] = pc[u] /\ m'[u] = m[u]
  BY PlacesStep
<1>2. CASE kernel # "counter"
  <2>1. _isync_count' = _isync_count
    BY <1>2 DEF Step, update, NoLeft, NoRight, SeeRaised, Lower, SeeLowered, Raise, FlagAction,
          CounterSyncLeft, CounterSyncRight, NaiveGet, NaiveSet, GetSeen, GetRemember, StepSet,
          StepSetImmediate, Publish
  <2>. QED BY <1>1, <1>2, <2>1 DEF CountersInv, CountersMeanWork
<1>3. CASE kernel = "counter"
  <2>1. \A u \in Thread \ {t}: Signalled(u)' = Signalled(u) /\ LetInto(u)' = LetInto(u)
    BY <1>1 DEF Signalled, LetInto, LastIteration
  <2>2. \A u \in Thread: Signalled(u) \in Int /\ LetInto(u) \in Int
    BY Sizes DEF Signalled, LetInto, Positions, Iteration
  <2>3. Signalled(t)' \in Int /\ Signalled(t)' < ITERATIONS /\ LetInto(t)' \in Int
    BY PlacesStep, Sizes DEF Signalled, LetInto, Positions, Iteration, LastIteration
  <2>4. ASSUME NEW u \in HasRight
        PROVE  _isync_count'[u] = Signalled(u)' + 1 /\ LetInto(u + 1)' <= Signalled(u)'
    <3>1. u \in Thread /\ u + 1 \in Thread /\ ~Last(u) /\ ~First(u + 1) /\ (u + 1) - 1 = u
      BY Sizes DEF HasRight, Thread, First, Last
    <3>2. _isync_count[u] = Signalled(u) + 1 /\ LetInto(u + 1) <= Signalled(u)
      BY <1>3 DEF CountersInv, CountersMeanWork
    <3>3. CASE u = t
      <4>1. u + 1 # t /\ LetInto(u + 1)' = LetInto(u + 1)
        BY <2>1, <3>1, <3>3, Sizes DEF HasRight
      <4>2. Signalled(u) = Signalled(t) /\ Signalled(u)' = Signalled(t)'
        BY <3>3
      <4>. QED BY <1>3, <2>2, <3>1, <3>2, <3>3, <4>1, <4>2, CounterStep DEF CountersInv
    <3>4. CASE u + 1 = t
      <4>1. u # t /\ t - 1 = u /\ Signalled(u)' = Signalled(u)
        BY <2>1, <3>1, <3>4, Sizes DEF HasRight
      <4>2. LetInto(u + 1) = LetInto(t) /\ LetInto(u + 1)' = LetInto(t)'
        BY <3>4 DEF LetInto
      <4>3. _isync_count[t - 1] = _isync_count[u] /\ _isync_count'[u] = _isync_count[u]
        BY <1>3, <3>1, <4>1, CounterStep DEF CountersInv
      <4>4. \/ LetInto(t)' = LetInto(t)
            \/ _isync_count[u] > LetInto(t)'
        BY <1>3, <3>1, <3>4, <4>3, CounterStep
      <4>. QED BY <2>2, <2>3, <3>1, <3>2, <4>1, <4>2, <4>3, <4>4
    <3>5. CASE u # t /\ u + 1 # t
      <4>1. _isync_count'[u] = _isync_count[u]
        BY <1>3, <3>1, <3>5, CounterStep DEF CountersInv
      <4>. QED BY <2>1, <3>1, <3>2, <3>5, <4>1
    <3>. QED BY <3>3, <3>4, <3>5
  <2>5. _isync_count' \in [Thread -> 1 .. ITERATIONS]
    <3>1. CASE ~Last(t)
      <4>1. t \in HasRight
        BY <3>1, Sizes DEF Thread, HasRight, Last
      <4>2. _isync_count'[t] <= ITERATIONS
        BY <2>3, <2>4, <4>1, Sizes
      <4>. QED BY <1>3, <4>2, Sizes, CounterStep DEF CountersInv
    <3>2. CASE Last(t)
      BY <1>3, <3>2, CounterStep DEF CountersInv
    <3>. QED BY <3>1, <3>2
  <2>. QED BY <1>1, <2>4, <2>5 DEF CountersInv, CountersMeanWork, HasRight
<1>. QED BY <1>2, <1>3
(***************************************************************************)
(* NaivePromise: a promise that is set stays set, so that a thread that    *)
(* works on a row has been let into it by the promise of that row, or of   *)
(* the iteration.                                                          *)
(***************************************************************************)
NaiveInv ==
    /\ _ready \in [Iteration -> [Thread -> SUBSET (0 .. DIM - 1)]]
    /\ NaivePromisesMeanWork
    /\ ~NaiveKernel => \A i \in Iteration, t \in Thread: _ready[i][t] = {}
    /\ NaiveKernel => \A t \in Thread: ~First(t) /\ pc[t] = "update" =>
           NaiveIndex(t) \in _ready[m[t]][t]

LEMMA ReadyStep ==
    ASSUME NEW t \in Thread, Step(t)
    PROVE  \/ _ready' = _ready /\ ~NaiveSet(t)
           \/ /\ NaiveKernel /\ pc[t] = "set" /\ ~Last(t) /\ NaiveSet(t)
              /\ _ready' = [_ready EXCEPT ![m[t]][t + 1] = @ \cup {NaiveIndex(t)}]
  BY DEF Step, update, NoLeft, NoRight, SeeRaised, Lower, SeeLowered, Raise, FlagAction, promises,
        CounterSyncLeft, CounterSyncRight, NaiveGet, NaiveSet, GetSeen, GetRemember, StepSet,
        StepSetImmediate, Publish

\* What NaiveSet announces is done, and it takes nothing back
LEMMA ReadyGrows ==
    ASSUME Positions, Places, NaiveInv, NEW t \in Thread, Step(t)
    PROVE  /\ _ready' \in [Iteration -> [Thread -> SUBSET (0 .. DIM - 1)]]
           /\ \A i \in Iteration, u \in Thread: _ready[i][u] \subseteq _ready'[i][u]
           /\ \A i \in Iteration, u \in HasRight, r \in 0 .. DIM - 1:
                  r \in _ready'[i][u + 1] => \/ r \in _ready[i][u + 1]
                                            \/ /\ NaiveKernel /\ pc[t] = "set"
                                               /\ u = t /\ i = m[t] /\ r = NaiveIndex(t)
<1>. USE Sizes DEF Positions
<1>1. CASE _ready' = _ready
  BY <1>1 DEF NaiveInv
<1>2. CASE NaiveSet(t)
  <2>1. /\ NaiveKernel /\ pc[t] = "set"
        /\ _ready' = [_ready EXCEPT ![m[t]][t + 1] = @ \cup {NaiveIndex(t)}]
        /\ t + 1 \in Thread /\ m[t] \in Iteration /\ NaiveIndex(t) \in 0 .. DIM - 1
    BY <1>2 DEF NaiveSet, Last, Thread, NaiveIndex
  <2>2. \A u \in HasRight: u + 1 \in Thread /\ (u + 1 = t + 1 => u = t)
    BY DEF HasRight, Thread
  <2>. QED BY <2>1, <2>2 DEF NaiveInv
<1>. QED BY <1>1, <1>2, ReadyStep

LEMMA NaiveWork ==
    ASSUME Positions, Places, OwnDone, NaiveKernel, NEW t \in Thread, pc[t] = "set",
           NEW r \in (IF kernel = "array_of_promises" THEN {NaiveIndex(t)} ELSE 1 .. DIM - 1)
    PROVE  <<t, m[t], r>> \in done
<1>1. kernel \in {"array_of_promises", "promise_of_array"}
  BY DEF NaiveKernel
<1>2. r \in FirstRow(kernel) .. DIM - 1 /\ r <= j[t]
  BY <1>1, Sizes DEF NaiveIndex, PerRow, FirstRow, Places, Positions
<1>3. m[t] \in 1 .. LastIteration(kernel) /\ j[t] \in Int
  BY DEF Places, Positions
<1>4. Past(t, m[t], r)
  BY <1>1, <1>2, <1>3 DEF Past, Updated
<1>. QED BY <1>2, <1>3, <1>4 DEF OwnDone

LEMMA NaiveStep ==
    ASSUME Positions, Places, OwnDone, NaiveInv, NEW t \in Thread, Step(t)
    PROVE  NaiveInv'
<1>1. /\ kernel' = kernel /\ done \subseteq done'
      /\ \A u \in Thread \ {t}: pc'[u] = pc[u] /\ m'[u] = m[u] /\ j'[u] = j[u]
  BY PlacesStep, DoneStep
<1>2. NaivePromisesMeanWork'
  <2> SUFFICES ASSUME NEW u \in HasRight, NEW i \in Iteration, NEW r \in _ready'[i][u + 1],
                      NEW r2 \in (IF kernel = "array_of_promises" THEN {r} ELSE 1 .. DIM - 1)
               PROVE  <<u, i, r2>> \in done'
    BY <1>1 DEF NaivePromisesMeanWork
  <2>1. r \in 0 .. DIM - 1
    BY ReadyGrows, Sizes DEF HasRight, Thread
  <2>2. CASE r \in _ready[i][u + 1]
    BY <1>1, <2>2 DEF NaiveInv, NaivePromisesMeanWork
  <2>3. CASE NaiveKernel /\ pc[t] = "set" /\ u = t /\ i = m[t] /\ r = NaiveIndex(t)
    BY <1>1, <2>3, NaiveWork
  <2>. QED BY <2>1, <2>2, <2>3, ReadyGrows
<1>3. ~NaiveKernel => \A i \in Iteration, u \in Thread: _ready'[i][u] = {}
  BY ReadyStep DEF NaiveInv
<1>4. ASSUME NaiveKernel, NEW u \in Thread, ~First(u), pc'[u] = "update"
      PROVE  NaiveIndex(u)' \in _ready'[m'[u]][u]
  <2>1. CASE u # t
    <3>1. NaiveIndex(u)' = NaiveIndex(u) /\ m'[u] = m[u] /\ pc[u] = "update" /\ m[u] \in Iteration
      BY <1>1, <1>4, <2>1 DEF NaiveIndex, PerRow, Positions
    <3>. QED BY <1>4, <3>1, ReadyGrows DEF NaiveInv
  <2>2. CASE u = t
    <3>1. NaiveIndex(t) \in _ready[m[t]][t] /\ m'[t] = m[t] /\ NaiveIndex(t)' = NaiveIndex(t)
      <4>. USE <1>1, <1>4, <2>2 DEF NaiveKernel, NaiveIndex, PerRow, Stay, Go, Positions
      <4>1. CASE update(t)
        BY <4>1 DEF update, AfterUpdate, NextRow, NaiveInv
      <4>2. CASE NoRight(t)
        BY <4>2 DEF NoRight, AfterSet, NextRow, NextIteration
      <4>3. CASE NaiveGet(t)
        BY <4>3 DEF NaiveGet
      <4>4. CASE NaiveSet(t)
        BY <4>4 DEF NaiveSet, AfterSet, NextRow, NextIteration
      <4>. QED BY <4>1, <4>2, <4>3, <4>4
               DEF Step, NoLeft, SeeRaised, Lower, SeeLowered, Raise, FlagAction, CounterSyncLeft,
                   CounterSyncRight, GetSeen, GetRemember, StepSet, StepSetImmediate, StepKernel
    <3>2. m[t] \in Iteration
      BY DEF Positions
    <3>. QED BY <2>2, <3>1, <3>2, ReadyGrows
  <2>. QED BY <2>1, <2>2
<1>. QED BY <1>1, <1>2, <1>3, <1>4, ReadyGrows DEF NaiveInv, NaiveKernel, First
(***************************************************************************)
(* ActiveStaticStepPromise: the index a thread publishes only grows, since *)
(* no index is ahead of the row it is at and those of later iterations     *)
(* have not been set, so that a thread that was let in stays let in.       *)
(***************************************************************************)
LetInPlaces == IF kernel = "lu" THEN {"got", "set", "update"} ELSE {"got", "update"}

IndexInv ==
    /\ _current_index_strong \in PromiseIndex
    /\ _current_index \in PromiseIndex
    /\ _current_index_weak \in PromiseIndex
    /\ StepPromisesMeanWork
    /\ StepKernel => \A t \in Thread: ~First(t) /\ pc[t] \in LetInPlaces =>
           _current_index_strong[m[t]][t] >= j[t]
    /\ StepKernel => \A t \in HasRight:
           /\ pc[t] # "end" => _current_index_strong[m[t]][t + 1] <= j[t]
           /\ \A i \in Iteration: i > m[t] => _current_index_strong[i][t + 1] = None

\* The three things a step can do to the step promises
Publishes(t, x) ==
    /\ StepKernel /\ ~Last(t)
    /\ \/ pc[t] = "set" /\ x = j[t]
       \/ pc[t] = "immediate" /\ x = DIM
    /\ _current_index' = [_current_index EXCEPT ![m[t]][t + 1] = x]
    /\ _current_index_strong' = [_current_index_strong EXCEPT ![m[t]][t + 1] = x]
    /\ _current_index_weak' = _current_index_weak

Remembers(t) ==
    /\ StepKernel /\ pc[t] = "got" /\ UNCHANGED <<_current_index, _current_index_strong>>
    /\ _current_index_weak' =
         [_current_index_weak EXCEPT ![m[t]][t] = _current_index_strong[m[t]][t]]

LEMMA IndexStep ==
    ASSUME NEW t \in Thread, Step(t)
    PROVE  \/ UNCHANGED <<_current_index, _current_index_strong, _current_index_weak>>
           \/ Remembers(t)
           \/ \E x \in {j[t], DIM}: Publishes(t, x)
<1>1. CASE GetRemember(t)
  BY <1>1 DEF GetRemember, Remembers
<1>2. CASE StepSet(t) \/ StepSetImmediate(t)
  BY <1>2 DEF StepSet, StepSetImmediate, Publish, Publishes, promises, StepKernel
<1>3. CASE ~GetRemember(t) /\ ~StepSet(t) /\ ~StepSetImmediate(t)
  BY <1>3 DEF Step, update, NoLeft, NoRight, SeeRaised, Lower, SeeLowered, Raise, FlagAction,
        promises, CounterSyncLeft, CounterSyncRight, NaiveGet, NaiveSet, GetSeen
<1>. QED BY <1>1, <1>2, <1>3

LEMMA PlusOne ==
    \A u, t \in HasRight: /\ u \in Thread /\ u + 1 \in Thread /\ ~First(u + 1) /\ ~Last(u)
                         /\ (u + 1 = t + 1 => u = t)
  BY Sizes DEF HasRight, Thread, First, Last

LEMMA RightOf ==
    ASSUME NEW t \in Thread, ~Last(t) PROVE t \in HasRight
  BY Sizes DEF HasRight, Thread, Last

\* An index only grows
LEMMA IndexGrows ==
    ASSUME Positions, Places, IndexInv, NEW t \in Thread, Step(t)
    PROVE  /\ _current_index_strong' \in PromiseIndex
           /\ _current_index' \in PromiseIndex
           /\ _current_index_weak' \in PromiseIndex
           /\ \A i \in Iteration, u \in HasRight:
                  _current_index_strong'[i][u + 1] >= _current_index_strong[i][u + 1]
<1>. USE Sizes DEF PromiseIndex, Index, None
<1>1. CASE UNCHANGED <<_current_index, _current_index_strong, _current_index_weak>>
  BY <1>1, PlusOne DEF IndexInv
<1>2. CASE Remembers(t)
  BY <1>2, PlusOne DEF IndexInv, Remembers, Positions
<1>3. ASSUME NEW x \in {j[t], DIM}, Publishes(t, x)
      PROVE  /\ _current_index_strong' \in PromiseIndex
             /\ _current_index' \in PromiseIndex
             /\ _current_index_weak' \in PromiseIndex
             /\ \A i \in Iteration, u \in HasRight:
                    _current_index_strong'[i][u + 1] >= _current_index_strong[i][u + 1]
  <2>1. t \in HasRight /\ x \in Index /\ m[t] \in Iteration
    BY <1>3, RightOf DEF Publishes, Positions
  <2>2. x >= _current_index_strong[m[t]][t + 1]
    <3>1. _current_index_strong[m[t]][t + 1] \in Index
      BY <2>1, PlusOne DEF IndexInv
    <3>2. _current_index_strong[m[t]][t + 1] <= j[t]
      BY <1>3, <2>1 DEF Publishes, IndexInv
    <3>. QED BY <1>3, <3>1, <3>2 DEF Publishes, Positions
  <2>. QED BY <1>3, <2>1, <2>2, PlusOne DEF Publishes, IndexInv
<1>. QED BY <1>1, <1>2, <1>3, IndexStep
\* What thread t announces when it publishes is done
LEMMA IndexWork ==
    ASSUME Positions, Places, OwnDone, IndexInv, NEW t \in HasRight,
           NEW x \in {j[t], DIM}, Publishes(t, x)
    PROVE  /\ kernel = "static_step" =>
                  \A r \in 1 .. DIM - 1: r <= x => <<t, m[t], r>> \in done
           /\ kernel = "lu" =>
                  \A u \in 0 .. t, r \in 0 .. DIM - 1: r < x => <<u, 1, r>> \in done
<1>1. t \in Thread /\ m[t] \in 1 .. LastIteration(kernel) /\ j[t] \in 0 .. DIM - 1
  BY PlusOne DEF Positions, Places
<1>2. ASSUME kernel = "static_step", NEW r \in 1 .. DIM - 1, r <= x
      PROVE  <<t, m[t], r>> \in done
  <2>1. Past(t, m[t], r)
    BY <1>1, <1>2, Sizes DEF Publishes, Places, Past, Updated
  <2>. QED BY <1>1, <1>2, <2>1 DEF OwnDone, FirstRow
<1>3. ASSUME kernel = "lu", NEW u \in 0 .. t, NEW r \in 0 .. DIM - 1, r < x
      PROVE  <<u, 1, r>> \in done
  <2>1. pc[t] = "set" /\ x = j[t] /\ m[t] = 1 /\ StepKernel
    BY <1>1, <1>3 DEF Publishes, Places, LastIteration, StepKernel
  <2>2. CASE u = t
    <3>1. Past(t, 1, r)
      BY <1>1, <1>3, <2>1 DEF Past
    <3>. QED BY <1>1, <1>3, <2>2, <3>1 DEF OwnDone, FirstRow, LastIteration
  <2>3. CASE u # t
    <3>1. t - 1 \in HasRight /\ (t - 1) + 1 = t /\ u \in 0 .. t - 1 /\ ~First(t) /\ 1 \in Iteration
      BY <2>3, Sizes DEF HasRight, First, Iteration
    <3>2. _current_index_strong[1][t] >= j[t] /\ _current_index_strong[1][t] \in Int
      BY <1>1, <1>3, <2>1, <3>1, Sizes DEF IndexInv, LetInPlaces, PromiseIndex, Index, None
    <3>3. r < _current_index_strong[1][(t - 1) + 1]
      BY <1>1, <1>3, <2>1, <3>1, <3>2
    <3>. QED BY <1>3, <3>1, <3>3 DEF IndexInv, StepPromisesMeanWork
  <2>. QED BY <2>2, <2>3
<1>. QED BY <1>2, <1>3

LEMMA IndexMeansWork ==
    ASSUME Positions, Places, OwnDone, IndexInv, NEW t \in Thread, Step(t)
    PROVE  StepPromisesMeanWork'
<1>1. kernel' = kernel /\ done \subseteq done'
  BY PlacesStep, DoneStep
<1> SUFFICES ASSUME NEW u \in HasRight, NEW i \in Iteration
             PROVE  /\ kernel = "static_step" => \A r \in 1 .. DIM - 1:
                           r <= _current_index_strong'[i][u + 1] => <<u, i, r>> \in done'
                    /\ kernel = "lu" => \A v \in 0 .. u, r \in 0 .. DIM - 1:
                           r < _current_index_strong'[i][u + 1] => <<v, 1, r>> \in done'
                    /\ _current_index_weak'[i][u + 1] <= _current_index_strong'[i][u + 1]
  BY <1>1 DEF StepPromisesMeanWork
<1>2. CASE UNCHANGED <<_current_index, _current_index_strong, _current_index_weak>>
  BY <1>1, <1>2 DEF IndexInv, StepPromisesMeanWork
<1>3. u + 1 \in Thread
  BY PlusOne
<1>4. /\ _current_index_strong[i][u + 1] \in Int /\ _current_index_weak[i][u + 1] \in Int
      /\ _current_index_strong'[i][u + 1] \in Int
  BY <1>3, IndexGrows, Sizes DEF IndexInv, PromiseIndex, Index, None
<1>5. CASE Remembers(t)
  <2>1. \/ _current_index_weak'[i][u + 1] = _current_index_weak[i][u + 1]
        \/ _current_index_weak'[i][u + 1] = _current_index_strong[i][u + 1]
    BY <1>3, <1>5 DEF Remembers, IndexInv, PromiseIndex
  <2>. QED BY <1>1, <1>4, <1>5, <2>1 DEF Remembers, IndexInv, StepPromisesMeanWork
<1>6. ASSUME NEW x \in {j[t], DIM}, Publishes(t, x), ~(u = t /\ i = m[t])
      PROVE  _current_index_strong'[i][u + 1] = _current_index_strong[i][u + 1]
  <2>1. t \in HasRight
    BY <1>6, RightOf DEF Publishes
  <2>2. u + 1 # t + 1 \/ i # m[t]
    BY <1>6, <2>1, PlusOne
  <2>. QED BY <1>3, <1>6, <2>2 DEF Publishes, IndexInv, PromiseIndex
<1>7. ASSUME NEW x \in {j[t], DIM}, Publishes(t, x)
      PROVE  /\ kernel = "static_step" => \A r \in 1 .. DIM - 1:
                    r <= _current_index_strong'[i][u + 1] => <<u, i, r>> \in done'
             /\ kernel = "lu" => \A v \in 0 .. u, r \in 0 .. DIM - 1:
                    r < _current_index_strong'[i][u + 1] => <<v, 1, r>> \in done'
  <2>1. CASE u = t /\ i = m[t]
    <3>1. _current_index_strong'[i][u + 1] = x
      BY <1>3, <1>7, <2>1 DEF Publishes, IndexInv, PromiseIndex
    <3>. QED BY <1>1, <1>7, <2>1, <3>1, IndexWork
  <2>2. CASE ~(u = t /\ i = m[t])
    BY <1>1, <1>6, <1>7, <2>2 DEF IndexInv, StepPromisesMeanWork
  <2>. QED BY <2>1, <2>2
<1>8. ASSUME NEW x \in {j[t], DIM}, Publishes(t, x)
      PROVE  _current_index_weak'[i][u + 1] <= _current_index_strong'[i][u + 1]
  <2>1. _current_index_weak'[i][u + 1] = _current_index_weak[i][u + 1]
    BY <1>8 DEF Publishes
  <2>2. _current_index_weak[i][u + 1] <= _current_index_strong[i][u + 1]
    BY DEF IndexInv, StepPromisesMeanWork
  <2>. QED BY <1>4, <2>1, <2>2, IndexGrows
<1>. QED BY <1>2, <1>5, <1>7, <1>8, IndexStep
\* Where a thread of the step promises can go
LEMMA StepKernelMoves ==
    ASSUME Positions, Places, StepKernel, NEW t \in Thread, Step(t)
    PROVE  \/ m'[t] = m[t] /\ j'[t] = j[t]
           \/ m'[t] = m[t] /\ j'[t] = j[t] + 1
           \/ m'[t] = m[t] + 1 /\ pc'[t] = "get"
  BY MoveStep DEF Move

LEMMA IndexLetsIn ==
    ASSUME Positions, Places, IndexInv, StepKernel, NEW t \in Thread, Step(t),
           NEW u \in Thread, ~First(u), pc'[u] \in LetInPlaces'
    PROVE  _current_index_strong'[m'[u]][u] >= j'[u]
<1>1. /\ kernel' = kernel
      /\ \A v \in Thread \ {t}: pc'[v] = pc[v] /\ m'[v] = m[v] /\ j'[v] = j[v]
  BY PlacesStep
<1>2. /\ u - 1 \in HasRight /\ (u - 1) + 1 = u /\ m[u] \in Iteration /\ j[u] \in Int
  BY Sizes DEF HasRight, Thread, First, Positions
<1>3. /\ _current_index_strong[m[u]][u] \in Int /\ _current_index_weak[m[u]][u] \in Int
      /\ _current_index_strong'[m[u]][u] \in Int
      /\ _current_index_strong'[m[u]][u] >= _current_index_strong[m[u]][u]
      /\ _current_index_strong[m[u]][u] >= _current_index_weak[m[u]][u]
  <2>1. _current_index_strong'[m[u]][(u - 1) + 1] >= _current_index_strong[m[u]][(u - 1) + 1]
    BY <1>2, IndexGrows
  <2>2. _current_index_weak[m[u]][(u - 1) + 1] <= _current_index_strong[m[u]][(u - 1) + 1]
    BY <1>2 DEF IndexInv, StepPromisesMeanWork
  <2>. QED BY <1>2, <2>1, <2>2, IndexGrows, Sizes DEF IndexInv, PromiseIndex, Index, None
<1>4. CASE u # t
  <2>1. pc[u] \in LetInPlaces /\ m'[u] = m[u] /\ j'[u] = j[u]
    BY <1>1, <1>4 DEF LetInPlaces
  <2>. QED BY <1>2, <1>3, <2>1 DEF IndexInv
<1>5. CASE u = t
  <2>1. /\ m'[t] = m[t] /\ j'[t] = j[t]
        /\ \/ pc[t] \in LetInPlaces
           \/ _current_index_weak[m[t]][t] >= j[t]
           \/ _current_index_strong[m[t]][t] >= j[t]
    <3>. USE <1>1, <1>5 DEF StepKernel, LetInPlaces, PerRow, AfterGet, Stay, Go, Positions
    <3>1. CASE update(t)
      BY <3>1 DEF update, AfterUpdate, NextRow, NextIteration
    <3>2. CASE NoRight(t)
      BY <3>2 DEF NoRight, AfterSet, NextRow, NextIteration
    <3>3. CASE GetSeen(t)
      BY <3>3 DEF GetSeen, ready_index_weak
    <3>4. CASE GetRemember(t)
      BY <3>4 DEF GetRemember
    <3>5. CASE StepSet(t)
      BY <3>5 DEF StepSet, AfterSet, NextRow, NextIteration
    <3>6. CASE StepSetImmediate(t)
      BY <3>6 DEF StepSetImmediate, NextIteration
    <3>. QED BY <3>1, <3>2, <3>3, <3>4, <3>5, <3>6
             DEF Step, NoLeft, SeeRaised, Lower, SeeLowered, Raise, FlagAction, CounterSyncLeft,
                 CounterSyncRight, NaiveGet, NaiveSet, NaiveKernel
  <2>2. _current_index_strong[m[t]][t] >= j[t]
    BY <1>2, <1>3, <1>5, <2>1 DEF IndexInv
  <2>. QED BY <1>2, <1>3, <1>5, <2>1, <2>2
<1>. QED BY <1>4, <1>5

LEMMA IndexBounds ==
    ASSUME Positions, Places, IndexInv, StepKernel, NEW t \in Thread, Step(t), NEW u \in HasRight
    PROVE  /\ pc'[u] # "end" => _current_index_strong'[m'[u]][u + 1] <= j'[u]
           /\ \A i \in Iteration: i > m'[u] => _current_index_strong'[i][u + 1] = None
<1>1. /\ kernel' = kernel
      /\ \A v \in Thread \ {t}: pc'[v] = pc[v] /\ m'[v] = m[v] /\ j'[v] = j[v]
  BY PlacesStep
<1>2. /\ u \in Thread /\ u + 1 \in Thread /\ m[u] \in Iteration /\ j[u] \in Int
      /\ m'[u] \in Iteration /\ j'[u] \in 0 .. DIM - 1
  BY PlusOne, PlacesStep DEF Positions
<1>3. \A i \in Iteration: /\ _current_index_strong[i][u + 1] \in Int
                          /\ _current_index_strong'[i][u + 1] \in Int
  BY <1>2, IndexGrows, Sizes DEF IndexInv, PromiseIndex, Index, None
<1>4. /\ pc[u] # "end" => _current_index_strong[m[u]][u + 1] <= j[u]
      /\ \A i \in Iteration: i > m[u] => _current_index_strong[i][u + 1] = None
  BY DEF IndexInv
<1>5. ASSUME NEW i \in Iteration, i # m[t] \/ u # t
      PROVE  _current_index_strong'[i][u + 1] = _current_index_strong[i][u + 1]
  <2>1. ASSUME NEW x \in {j[t], DIM}, Publishes(t, x)
        PROVE  _current_index_strong'[i][u + 1] = _current_index_strong[i][u + 1]
    <3>1. i # m[t] \/ u + 1 # t + 1
      BY <1>5, <2>1, PlusOne, RightOf DEF Publishes
    <3>. QED BY <1>2, <2>1, <3>1 DEF Publishes, IndexInv, PromiseIndex
  <2>. QED BY <2>1, IndexStep DEF Remembers
<1>6. CASE u # t
  BY <1>1, <1>2, <1>4, <1>5, <1>6
<1>7. CASE u = t
  <2>1. \A i \in Iteration: i > m'[t] => i > m[t] /\ i # m[t]
    BY <1>2, <1>7, StepKernelMoves DEF Iteration
  <2>2. \A i \in Iteration: i > m'[t] => _current_index_strong'[i][t + 1] = None
    BY <1>4, <1>5, <1>7, <2>1
  <2>3. ASSUME pc'[t] # "end", m'[t] = m[t] + 1
        PROVE  _current_index_strong'[m'[t]][t + 1] <= j'[t]
    BY <1>2, <1>4, <1>5, <1>7, <2>3 DEF None, Iteration
  <2>4. ASSUME pc'[t] # "end", m'[t] = m[t], NEW x \in {j[t], DIM}, Publishes(t, x)
        PROVE  _current_index_strong'[m'[t]][t + 1] <= j'[t]
    <3>1. _current_index_strong'[m[t]][t + 1] = x
      BY <1>2, <1>7, <2>4 DEF Publishes, IndexInv, PromiseIndex
    <3>2. x = j[t]
      <4>1. CASE pc[t] = "immediate"
        <5>1. NoRight(t) \/ StepSetImmediate(t)
          BY <4>1 DEF Step, update, NoLeft, SeeRaised, Lower, SeeLowered, Raise, FlagAction,
                CounterSyncLeft, CounterSyncRight, NaiveGet, NaiveSet, GetSeen, GetRemember, StepSet
        <5>. QED BY <1>2, <1>7, <2>4, <4>1, <5>1, Sizes
                 DEF NoRight, StepSetImmediate, NextIteration, Stay, Go, Positions, Iteration
      <4>. QED BY <2>4, <4>1 DEF Publishes
    <3>3. j'[t] >= j[t]
      BY <1>2, <1>7, <2>4, StepKernelMoves DEF Iteration
    <3>. QED BY <1>2, <1>7, <2>4, <3>1, <3>2, <3>3
  <2>5. ASSUME pc'[t] # "end", m'[t] = m[t], _current_index_strong' = _current_index_strong
        PROVE  _current_index_strong'[m'[t]][t + 1] <= j'[t]
    <3>1. pc[t] # "end"
      BY DEF Step, update, NoLeft, NoRight, SeeRaised, Lower, SeeLowered, Raise, FlagAction,
            CounterSyncLeft, CounterSyncRight, NaiveGet, NaiveSet, GetSeen, GetRemember, StepSet,
            StepSetImmediate
    <3>2. j'[t] >= j[t]
      BY <1>2, <1>7, <2>5, StepKernelMoves DEF Iteration
    <3>3. _current_index_strong[m[t]][t + 1] \in Int
      BY <1>2, <1>3, <1>7
    <3>. QED BY <1>2, <1>4, <1>7, <2>5, <3>1, <3>2, <3>3
  <2>. QED BY <1>2, <1>7, <2>2, <2>3, <2>4, <2>5, StepKernelMoves, IndexStep DEF Remembers
<1>. QED BY <1>6, <1>7

LEMMA IndexInvStep ==
    ASSUME Positions, Places, OwnDone, IndexInv, NEW t \in Thread, Step(t)
    PROVE  IndexInv'
<1>1. kernel' = kernel
  BY PlacesStep
<1>. QED BY <1>1, IndexGrows, IndexMeansWork, IndexLetsIn, IndexBounds
         DEF IndexInv, StepKernel, First, LetInPlaces
(***************************************************************************)
(* The inductive invariant.                                                *)
(***************************************************************************)
Inv == TypeOK /\ Places /\ OwnDone /\ FlagsInv /\ CountersInv /\ NaiveInv /\ IndexInv

LEMMA TypeParts == TypeOK => Positions
  BY KernelsAssumption, StepsAssumption DEF TypeOK, Positions

LEMMA InitInv == Init => Inv
<1> SUFFICES ASSUME Init PROVE Inv
  OBVIOUS
<1>. USE Sizes DEF Init
<1>1. TypeOK
  BY DEF TypeOK, PCs, Iteration, PromiseIndex, Index, None, FirstRow
<1>2. Places
  BY DEF Places, Iteration
<1>3. OwnDone
  BY DEF OwnDone, Past, Updated
<1>4. FlagsInv
  BY <1>1 DEF TypeOK, FlagsInv, FlagsMeanWork, Signalled, LetInto, HasRight, Thread
<1>5. CountersInv
  BY <1>1 DEF TypeOK, CountersInv, CountersMeanWork, Signalled, LetInto, HasRight, Thread
<1>6. NaiveInv
  BY <1>1 DEF TypeOK, NaiveInv, NaivePromisesMeanWork, HasRight, Thread
<1>7. IndexInv
  <2>1. \A t \in HasRight: t \in Thread /\ t + 1 \in Thread
    BY PlusOne
  <2>2. StepPromisesMeanWork
    BY <2>1 DEF StepPromisesMeanWork, None
  <2>3. \A t \in HasRight, i \in Iteration: _current_index_strong[i][t + 1] = None
    BY <2>1
  <2>4. \A t \in HasRight: m[t] \in Iteration /\ None <= j[t]
    BY <1>1, <2>1 DEF TypeOK, None
  <2>5. \A t \in Thread: pc[t] \notin LetInPlaces
    BY DEF LetInPlaces
  <2>. QED BY <1>1, <2>2, <2>3, <2>4, <2>5 DEF TypeOK, IndexInv
<1>. QED BY <1>1, <1>2, <1>3, <1>4, <1>5, <1>6, <1>7 DEF Inv

LEMMA StepInv == Inv /\ [Next]_vars => Inv'
<1> SUFFICES ASSUME Inv, [Next]_vars PROVE Inv'
  OBVIOUS
<1>0. Positions
  BY TypeParts DEF Inv
<1>1. ASSUME NEW t \in Thread, Step(t) PROVE Inv'
  <2>1. Positions' /\ Places' /\ kernel' = kernel /\ step' = step
    BY <1>0, <1>1, PlacesStep DEF Inv
  <2>2. OwnDone' /\ FlagsInv' /\ CountersInv' /\ NaiveInv' /\ IndexInv'
    BY <1>0, <1>1, OwnDoneStep, FlagsStep, CountersStep, NaiveStep, IndexInvStep DEF Inv
  <2>3. done' \subseteq Cells(kernel)
    <3>1. <<t, m[t], j[t]>> \in Cells(kernel)
      BY DEF Inv, Places, Cells
    <3>. QED BY <1>1, <3>1, DoneStep DEF Inv, TypeOK
  <2>4. TypeOK'
    BY <2>1, <2>2, <2>3
       DEF Inv, TypeOK, Positions, FlagsInv, CountersInv, NaiveInv, IndexInv, Cells, LastIteration,
           FirstRow
  <2>. QED BY <2>1, <2>2, <2>4 DEF Inv
<1>2. CASE UNCHANGED vars
  BY <1>2 DEF vars, choice, position, promises, Inv, TypeOK, Places, OwnDone, FlagsInv, CountersInv,
        NaiveInv, IndexInv, Past, Updated, PerRow, StepKernel, NaiveKernel, NaiveIndex, LetInPlaces,
        FlagsMeanWork, CountersMeanWork, NaivePromisesMeanWork, StepPromisesMeanWork, Signalled,
        LetInto, LastIteration, FirstRow, Cells
<1>. QED BY <1>1, <1>2 DEF Next

(* Every variable keeps its type, for any team, any size and any step. *)
THEOREM TypeCorrect == Spec => []TypeOK
<1>1. Inv => TypeOK
  BY DEF Inv
<1>. QED BY <1>1, InitInv, StepInv, PTL DEF Spec

(* No flag, counter or promise announces work that is not done. *)
THEOREM SignalsTrue == Spec => []SignalsMeanWork
<1>1. Inv => SignalsMeanWork
  BY DEF Inv, SignalsMeanWork, FlagsInv, CountersInv, NaiveInv, IndexInv
<1>. QED BY <1>1, InitInv, StepInv, PTL DEF Spec
(***************************************************************************)
(* What a thread reads is done when it is at work: its own cells are       *)
(* behind it, and those of the other threads were announced to it.         *)
(***************************************************************************)
LEMMA OwnReads ==
    ASSUME Inv, NEW t \in Thread, NEW i, NEW r, <<t, i, r>> \in Cells(kernel),
           i < m[t] \/ (i = m[t] /\ r < j[t])
    PROVE  <<t, i, r>> \in done
  BY DEF Inv, OwnDone, Past, Cells

\* The rank that owns a pivot row below which a rank still has rows
LEMMA OwnerOfPivot ==
    ASSUME NEW t \in Thread, NEW row \in 0 .. DIM - 1, row < LastOwned(t)
    PROVE  Owner(row) \in 0 .. t
<1>. USE Sizes DEF Thread, Owner, LastOwned
<1>1. bsize \in Nat /\ bsize >= 1
  <2>1. DIM >= N
    BY SizesAssumption
  <2>. QED BY <2>1 DEF bsize
<1>2. row \div bsize \in Nat
  BY <1>1
<1>3. CASE t = N - 1
  BY <1>2, <1>3
<1>4. CASE t # N - 1
  <2>1. row < (t + 1) * bsize
    BY <1>1, <1>4
  <2>2. row \div bsize < t + 1
    BY <1>1, <2>1
  <2>. QED BY <1>2, <2>2
<1>. QED BY <1>3, <1>4

LEMMA HeatLetIn ==
    ASSUME Inv, kernel # "lu", NEW t \in Thread, pc[t] = "update", ~First(t),
           NEW r \in LeftRow(kernel, j[t])
    PROVE  <<t - 1, m[t], r>> \in done
<1>. DEFINE u == t - 1
<1>1. /\ u \in HasRight /\ u \in Thread /\ u + 1 = t /\ Positions
      /\ m[t] \in 1 .. LastIteration(kernel) /\ m[t] \in Iteration /\ j[t] \in 1 .. DIM - 1
  <2>1. u \in HasRight /\ u \in Thread /\ u + 1 = t
    BY Sizes DEF HasRight, Thread, First
  <2>2. Positions /\ Places
    BY TypeParts DEF Inv
  <2>3. m[t] \in 1 .. LastIteration(kernel) /\ j[t] \in 1 .. DIM - 1
    BY <2>2 DEF Places, FirstRow
  <2>4. m[t] \in Iteration
    BY <2>2 DEF Positions
  <2>. QED BY <2>1, <2>2, <2>3, <2>4
<1>2. r \in 1 .. DIM - 1
  BY <1>1, Sizes DEF LeftRow
<1>3. CASE kernel \in {"alt_bit", "counter"}
  <2>1. LetInto(t) = m[t]
    BY DEF LetInto
  <2>2. Signalled(u) >= LetInto(t)
    <3>1. Signalled(u) \in Int
      BY <1>1, Sizes DEF Signalled, Positions, Iteration
    <3>2. LetInto(u + 1) = LetInto(t)
      BY <1>1
    <3>3. CASE kernel = "alt_bit"
      <4>1. Signalled(u) = LetInto(u + 1) + (IF _isync_flag[u] THEN 1 ELSE 0)
        BY <1>1, <3>3 DEF Inv, FlagsInv, FlagsMeanWork
      <4>. QED BY <1>1, <2>1, <3>1, <3>2, <4>1 DEF Iteration
    <3>4. CASE kernel = "counter"
      BY <1>1, <3>2, <3>4 DEF Inv, CountersInv
    <3>. QED BY <1>3, <3>3, <3>4
  <2>3. Past(u, m[t], r)
    BY <1>1, <2>1, <2>2 DEF Signalled, Past, Positions, Iteration
  <2>. QED BY <1>1, <1>2, <2>3 DEF Inv, OwnDone, FirstRow
<1>4. CASE NaiveKernel
  <2>1. NaiveIndex(t) \in _ready[m[t]][u + 1]
    BY <1>1, <1>4 DEF Inv, NaiveInv
  <2>2. r = j[t]
    BY <1>4 DEF LeftRow, NaiveKernel
  <2>3. r \in (IF kernel = "array_of_promises" THEN {NaiveIndex(t)} ELSE 1 .. DIM - 1)
    BY <1>2, <2>2 DEF NaiveIndex, PerRow
  <2>. QED BY <1>1, <2>1, <2>3 DEF Inv, NaiveInv, NaivePromisesMeanWork
<1>5. CASE kernel = "static_step"
  <2>1. _current_index_strong[m[t]][u + 1] >= j[t] /\ r = j[t]
    BY <1>1, <1>5 DEF Inv, IndexInv, LetInPlaces, StepKernel, LeftRow
  <2>2. r <= _current_index_strong[m[t]][u + 1]
    BY <1>1, <2>1, Sizes DEF Inv, IndexInv, PromiseIndex, Index, None
  <2>. QED BY <1>1, <1>2, <1>5, <2>2 DEF Inv, IndexInv, StepPromisesMeanWork
<1>. QED BY <1>1, <1>3, <1>4, <1>5 DEF NaiveKernel, Positions, AllKernels, HeatKernels

LEMMA LuLetIn ==
    ASSUME Inv, kernel = "lu", NEW t \in Thread, pc[t] = "update", NEW u \in 0 .. t, u # t,
           NEW r \in 0 .. DIM - 1, r < j[t]
    PROVE  <<u, 1, r>> \in done
<1>1. /\ t - 1 \in HasRight /\ (t - 1) + 1 = t /\ u \in 0 .. t - 1 /\ ~First(t)
      /\ m[t] = 1 /\ 1 \in Iteration /\ j[t] \in Int
  BY TypeParts, Sizes DEF Inv, Places, Positions, LastIteration, HasRight, Thread, First, Iteration
<1>2. _current_index_strong[1][(t - 1) + 1] >= j[t]
  BY <1>1 DEF Inv, IndexInv, LetInPlaces, StepKernel
<1>3. _current_index_strong[1][(t - 1) + 1] \in Int
  BY <1>1, Sizes DEF Inv, IndexInv, PromiseIndex, Index, None
<1>4. r < _current_index_strong[1][(t - 1) + 1]
  BY <1>1, <1>2, <1>3
<1>. QED BY <1>1, <1>4 DEF Inv, IndexInv, StepPromisesMeanWork
LEMMA ReadsDone ==
    ASSUME Inv, NEW t \in Thread, pc[t] = "update"
    PROVE  Reads(kernel, <<t, m[t], j[t]>>) \subseteq done
<1>1. /\ m[t] \in 1 .. LastIteration(kernel) /\ j[t] \in FirstRow(kernel) .. DIM - 1
      /\ m[t] \in Int /\ j[t] \in 0 .. DIM - 1
  BY TypeParts, Sizes DEF Inv, Places, Positions, Iteration
<1>2. ASSUME kernel = "lu", NEW c \in Cells(kernel) \cap LuReads(t, j[t])
      PROVE  c \in done
  <2>1. m[t] = 1
    BY <1>1, <1>2 DEF LastIteration
  <2>2. CASE c = <<t, 1, j[t] - 1>>
    BY <1>1, <1>2, <2>1, <2>2, OwnReads
  <2>3. CASE j[t] < LastOwned(t) /\ c = <<Owner(j[t]), 1, j[t] - 1>>
    <3>1. Owner(j[t]) \in 0 .. t
      BY <1>1, <2>3, OwnerOfPivot
    <3>2. CASE Owner(j[t]) = t
      BY <2>2, <2>3, <3>2
    <3>3. CASE Owner(j[t]) # t
      <4>1. j[t] - 1 \in 0 .. DIM - 1
        BY <1>1, <1>2, <2>3 DEF Cells, FirstRow
      <4>. QED BY <1>1, <1>2, <2>3, <3>1, <3>3, <4>1, LuLetIn
    <3>. QED BY <3>2, <3>3
  <2>. QED BY <1>2, <2>2, <2>3 DEF LuReads
<1>3. ASSUME kernel # "lu", NEW c \in Cells(kernel) \cap HeatReads(kernel, t, m[t], j[t])
      PROVE  c \in done
  <2>1. CASE c = <<t, m[t], j[t] - 1>> \/ c = <<t, m[t] - 1, j[t]>>
    BY <1>1, <1>3, <2>1, OwnReads
  <2>2. ASSUME NEW r \in LeftRow(kernel, j[t]), c = <<t - 1, m[t], r>>
        PROVE  c \in done
    <3>1. ~First(t)
      BY <1>3, <2>2, Sizes DEF Cells, Thread, First
    <3>. QED BY <1>3, <2>2, <3>1, HeatLetIn
  <2>. QED BY <1>3, <2>1, <2>2 DEF HeatReads
<1>. QED BY <1>2, <1>3 DEF Reads

(* A cell is computed only after the cells it reads. *)
THEOREM InOrder == Spec => ComputesInOrder
<1>1. Inv /\ [Next]_vars => [\A c \in done' \ done: Reads(kernel, c) \subseteq done]_vars
  <2> SUFFICES ASSUME Inv, NEW t \in Thread, Step(t), NEW c \in done' \ done
               PROVE  Reads(kernel, c) \subseteq done
    BY DEF Next
  <2>1. update(t) /\ c = <<t, m[t], j[t]>>
    BY DoneStep
  <2>. QED BY <2>1, ReadsDone DEF update
<1>. QED BY <1>1, InitInv, StepInv, PTL DEF Spec, ComputesInOrder

(* Whatever the synchronisation, a run of the team is a run of the program  *)
(* that computes one cell at a time, each after the cells it reads.         *)
THEOREM ImplementsOrder == Spec => Abstract!Init /\ [][Abstract!Next]_<<kernel, done>>
<1>1. Init => Abstract!Init
  BY DEF Init, Abstract!Init
<1>2. Inv /\ [Next]_vars => [Abstract!Next]_<<kernel, done>>
  <2> SUFFICES ASSUME Inv, [Next]_vars PROVE [Abstract!Next]_<<kernel, done>>
    OBVIOUS
  <2>1. ASSUME NEW t \in Thread, Step(t) PROVE [Abstract!Next]_<<kernel, done>>
    <3>1. kernel' = kernel
      BY <2>1, TypeParts, PlacesStep DEF Inv
    <3>2. CASE done' = done
      BY <3>1, <3>2
    <3>3. CASE update(t) /\ done' = done \cup {<<t, m[t], j[t]>>}
      <4>1. <<t, m[t], j[t]>> \in Cells(kernel)
        BY DEF Inv, Places, Cells
      <4>2. Reads(kernel, <<t, m[t], j[t]>>) \subseteq done
        BY <3>3, ReadsDone DEF update
      <4>. QED BY <3>1, <3>2, <3>3, <4>1, <4>2 DEF Abstract!Next, Abstract!Compute
    <3>. QED BY <2>1, <3>2, <3>3, DoneStep
  <2>2. CASE UNCHANGED vars
    BY <2>2 DEF vars, choice
  <2>. QED BY <2>1, <2>2 DEF Next
<1>. QED BY <1>1, <1>2, InitInv, StepInv, PTL DEF Spec
==============================================================================
