------------------------------ MODULE Wavefront ------------------------------
(***************************************************************************)
(* The parallel kernels of the heat program (src/src/heat_cpu) and of the  *)
(* LU program (src/src/lu): the threads of an OpenMP team each own a block *)
(* of a matrix and hand over to the next thread through one of six         *)
(* synchronisations.                                                       *)
(*                                                                         *)
(*   "alt_bit"            AltBitSynchronizer: a flag per thread            *)
(*   "counter"            CounterSynchronizer: a counter per thread        *)
(*   "static_step"        a step promise per iteration and thread          *)
(*   "array_of_promises"  a promise per iteration, thread and row          *)
(*   "promise_of_array"   a promise per iteration and thread               *)
(*   "lu"                 a step promise per thread                        *)
(*                                                                         *)
(* A cell <<t, m, j>> is row j of thread t's block in iteration m, or step *)
(* j of the elimination on the rows of rank t (m is 1 there).  Each access *)
(* to a shared variable is an action of its own.                           *)
(***************************************************************************)
EXTENDS Integers

CONSTANTS Kernels,      \* the synchronisations to choose from
          N,            \* number of threads
          ITERATIONS,   \* iterations of the heat program, the first one given
          DIM,          \* DIM_Y of the heat program, order of the LU matrix
          Steps         \* steps of the step promises to choose from

HeatKernels == {"alt_bit", "counter", "static_step", "array_of_promises", "promise_of_array"}
AllKernels == HeatKernels \cup {"lu"}

\* With one thread kernel_lu_omp_pp indexes its promises out of bounds.
ASSUME TeamAssumption == N \in Nat /\ N >= 2
ASSUME SizesAssumption == /\ ITERATIONS \in Nat /\ ITERATIONS >= 2
                          /\ DIM \in Nat /\ DIM >= N
ASSUME KernelsAssumption == Kernels \subseteq AllKernels
\* StaticStepPromiseCommonBase asserts that the step is not 0.
ASSUME StepsAssumption == Steps \subseteq Nat \ {0}

Thread == 0 .. N - 1
Iteration == 1 .. ITERATIONS - 1

(***************************************************************************)
(* The cells of a kernel and what update_matrix, or a step of the          *)
(* elimination, reads of other cells.                                      *)
(***************************************************************************)
FirstRow(k) == IF k = "lu" THEN 0 ELSE 1
LastIteration(k) == IF k = "lu" THEN 1 ELSE ITERATIONS - 1
Cells(k) == Thread \X (1 .. LastIteration(k)) \X (FirstRow(k) .. DIM - 1)

\* The rank that owns a row, and the last row of a rank.
bsize == DIM \div N
Owner(row) == IF row \div bsize < N THEN row \div bsize ELSE N - 1
LastOwned(t) == IF t = N - 1 THEN DIM - 1 ELSE (t + 1) * bsize - 1

\* The threads of "alt_bit" and "counter" own blocks of rows, so that only the
\* first row of a block reads the last one of the block before it; those of
\* the promise kernels own blocks of columns.
LeftRow(k, j) == CASE k \in {"alt_bit", "counter"} -> IF j = 1 THEN {DIM - 1} ELSE {}
                   [] OTHER -> {j}

HeatReads(k, t, m, j) ==
    {<<t - 1, m, r>>: r \in LeftRow(k, j)} \cup {<<t, m, j - 1>>, <<t, m - 1, j>>}

\* Step j needs the pivot row j after its steps before j, as long as the rank
\* has rows below it, and the rank's own rows after the step before.
LuReads(t, j) ==
    {<<t, 1, j - 1>>} \cup (IF j < LastOwned(t) THEN {<<Owner(j), 1, j - 1>>} ELSE {})

Reads(k, c) ==
    Cells(k) \cap (IF k = "lu" THEN LuReads(c[1], c[3]) ELSE HeatReads(k, c[1], c[2], c[3]))

VARIABLES
    kernel, step,   \* the synchronisation and the step of its promises
    pc, m, j,       \* where each thread is
    done,           \* the cells that are computed
    _isync_flag,    \* AltBitSynchronizer::_isync
    _isync_count,   \* CounterSynchronizer::_isync
    _ready,         \* the NaivePromise objects that are set, by iteration and thread
    _current_index_strong, _current_index, _current_index_weak
                    \* the step promises, by iteration and by the thread that waits

choice == <<kernel, step>>
position == <<pc, m, j>>
promises == <<_ready, _current_index_strong, _current_index, _current_index_weak>>
vars == <<choice, position, done, _isync_flag, _isync_count, promises>>

None == -1      \* the index of a step promise before the first set

Init ==
    /\ kernel \in Kernels /\ step \in Steps
    /\ pc = [t \in Thread |-> "get"]
    /\ m = [t \in Thread |-> 1]
    /\ j = [t \in Thread |-> FirstRow(kernel)]
    /\ done = {}
    /\ _isync_flag = [t \in Thread |-> FALSE]
    /\ _isync_count = [t \in Thread |-> 1]
    /\ _ready = [i \in Iteration |-> [t \in Thread |-> {}]]
    /\ _current_index_strong = [i \in Iteration |-> [t \in Thread |-> None]]
    /\ _current_index = [i \in Iteration |-> [t \in Thread |-> None]]
    /\ _current_index_weak = [i \in Iteration |-> [t \in Thread |-> None]]

(***************************************************************************)
(* Control of a thread: in each iteration, or for each row, it waits for   *)
(* the thread on its left, works, and signals the thread on its right.     *)
(* The elimination signals before it works.                                *)
(***************************************************************************)
PerRow == kernel \in {"static_step", "array_of_promises", "lu"}
First(t) == t = 0
Last(t) == t = N - 1

Go(t, where) == pc' = [pc EXCEPT ![t] = where]
Stay(t, where) == Go(t, where) /\ UNCHANGED <<m, j>>

NextIteration(t) ==
    IF m[t] < LastIteration(kernel)
    THEN /\ Go(t, "get")
         /\ m' = [m EXCEPT ![t] = @ + 1]
         /\ j' = [j EXCEPT ![t] = FirstRow(kernel)]
    ELSE Stay(t, "end")

NextRow(t, where) == Go(t, where) /\ j' = [j EXCEPT ![t] = @ + 1] /\ UNCHANGED m

AfterGet == IF kernel = "lu" THEN "set" ELSE "update"

AfterUpdate(t) ==
    IF kernel = "lu"
    THEN IF j[t] < DIM - 1 THEN NextRow(t, "get") ELSE NextIteration(t)
    ELSE IF ~PerRow /\ j[t] < DIM - 1 THEN NextRow(t, "update") ELSE Stay(t, "set")

AfterSet(t) ==
    IF kernel = "lu" THEN Stay(t, "update")
    ELSE IF PerRow /\ j[t] < DIM - 1 THEN NextRow(t, "get")
    ELSE IF kernel = "static_step" THEN Stay(t, "immediate")
    ELSE NextIteration(t)

(***************************************************************************)
(* The work: one row of the block, or one step on the rows of the rank.    *)
(***************************************************************************)
update(t) ==
    /\ pc[t] = "update"
    /\ done' = done \cup {<<t, m[t], j[t]>>}
    /\ AfterUpdate(t)
    /\ UNCHANGED <<choice, _isync_flag, _isync_count, promises>>

\* The first thread waits for nobody and the last one signals nobody.
NoLeft(t) ==
    /\ pc[t] = "get" /\ First(t)
    /\ Stay(t, AfterGet)
    /\ UNCHANGED <<choice, done, _isync_flag, _isync_count, promises>>

NoRight(t) ==
    /\ pc[t] \in {"set", "immediate"} /\ Last(t)
    /\ IF pc[t] = "set" THEN AfterSet(t) ELSE NextIteration(t)
    /\ UNCHANGED <<choice, done, _isync_flag, _isync_count, promises>>

(***************************************************************************)
(* AltBitSynchronizer: sync_left waits for the left neighbour's flag and   *)
(* lowers it; sync_right waits until its own flag is lowered and raises    *)
(* it.                                                                     *)
(***************************************************************************)
FlagAction(t, at) ==
    /\ kernel = "alt_bit" /\ pc[t] = at
    /\ UNCHANGED <<choice, done, _isync_count, promises>>

SeeRaised(t) == FlagAction(t, "get") /\ ~First(t)
    /\ _isync_flag[t - 1] /\ Stay(t, "got") /\ UNCHANGED _isync_flag
Lower(t) == FlagAction(t, "got")
    /\ _isync_flag' = [_isync_flag EXCEPT ![t - 1] = FALSE] /\ Stay(t, AfterGet)
\* Mutated form: sync_right does not wait for the flag to be lowered.
SeeLoweredAtOnce(t) == FlagAction(t, "set") /\ ~Last(t)
    /\ Stay(t, "setting") /\ UNCHANGED _isync_flag
SeeLowered(t) == FlagAction(t, "set") /\ ~Last(t)
    /\ ~_isync_flag[t] /\ Stay(t, "setting") /\ UNCHANGED _isync_flag
Raise(t) == FlagAction(t, "setting")
    /\ _isync_flag' = [_isync_flag EXCEPT ![t] = TRUE] /\ AfterSet(t)

(***************************************************************************)
(* CounterSynchronizer: the counters start at 1; sync_left waits until the *)
(* left neighbour's exceeds the iteration, sync_right adds one to its own. *)
(***************************************************************************)
\* Mutated form: sync_left lets a thread into the iteration its neighbour is in.
CounterSyncLeftTooSoon(t) ==
    /\ kernel = "counter" /\ pc[t] = "get" /\ ~First(t)
    /\ _isync_count[t - 1] >= m[t]
    /\ Stay(t, AfterGet)
    /\ UNCHANGED <<choice, done, _isync_flag, _isync_count, promises>>

CounterSyncLeft(t) ==
    /\ kernel = "counter" /\ pc[t] = "get" /\ ~First(t)
    /\ _isync_count[t - 1] > m[t]
    /\ Stay(t, AfterGet)
    /\ UNCHANGED <<choice, done, _isync_flag, _isync_count, promises>>

CounterSyncRight(t) ==
    /\ kernel = "counter" /\ pc[t] = "set" /\ ~Last(t)
    /\ _isync_count' = [_isync_count EXCEPT ![t] = @ + 1]
    /\ AfterSet(t)
    /\ UNCHANGED <<choice, done, _isync_flag, promises>>

(***************************************************************************)
(* NaivePromise<void>: get spins until set has been called.                *)
(***************************************************************************)
NaiveKernel == kernel \in {"array_of_promises", "promise_of_array"}
NaiveIndex(t) == IF PerRow THEN j[t] ELSE 0

NaiveGet(t) ==
    /\ NaiveKernel /\ pc[t] = "get" /\ ~First(t)
    /\ NaiveIndex(t) \in _ready[m[t]][t]
    /\ Stay(t, AfterGet)
    /\ UNCHANGED <<choice, done, _isync_flag, _isync_count, promises>>

NaiveSet(t) ==
    /\ NaiveKernel /\ pc[t] = "set" /\ ~Last(t)
    /\ _ready' = [_ready EXCEPT ![m[t]][t + 1] = @ \cup {NaiveIndex(t)}]
    /\ AfterSet(t)
    /\ UNCHANGED <<choice, done, _isync_flag, _isync_count,
                   _current_index_strong, _current_index, _current_index_weak>>

(***************************************************************************)
(* ActiveStaticStepPromise<void>: get looks at the thread's own copy of    *)
(* the index, then spins on the shared one and copies it; set publishes    *)
(* its index only when a whole step has been set since the last time,      *)
(* set_immediate always.                                                   *)
(***************************************************************************)
StepKernel == kernel \in {"static_step", "lu"}

ready_index_weak(t) == _current_index_weak[m[t]][t] >= j[t]

GetSeen(t) ==
    /\ StepKernel /\ pc[t] = "get" /\ ~First(t)
    /\ \/ ready_index_weak(t) /\ Stay(t, AfterGet)
       \/ ~ready_index_weak(t) /\ _current_index_strong[m[t]][t] >= j[t] /\ Stay(t, "got")
    /\ UNCHANGED <<choice, done, _isync_flag, _isync_count, promises>>

GetRemember(t) ==
    /\ StepKernel /\ pc[t] = "got"
    /\ _current_index_weak' =
         [_current_index_weak EXCEPT ![m[t]][t] = _current_index_strong[m[t]][t]]
    /\ Stay(t, AfterGet)
    /\ UNCHANGED <<choice, done, _isync_flag, _isync_count,
                   _ready, _current_index_strong, _current_index>>

Publish(i, t, index) ==
    /\ _current_index' = [_current_index EXCEPT ![i][t] = index]
    /\ _current_index_strong' = [_current_index_strong EXCEPT ![i][t] = index]
    /\ UNCHANGED <<choice, done, _isync_flag, _isync_count, _ready, _current_index_weak>>

StepComplete(i, t, index) == step = 1 \/ index - _current_index[i][t] >= step

\* kernel_lu_omp_pp calls set_immediate in place of set for the last row.
StepSet(t) ==
    /\ StepKernel /\ pc[t] = "set" /\ ~Last(t)
    /\ AfterSet(t)
    /\ IF \/ StepComplete(m[t], t + 1, j[t])
          \/ kernel = "lu" /\ j[t] = DIM - 1
       THEN Publish(m[t], t + 1, j[t])
       ELSE UNCHANGED <<choice, done, _isync_flag, _isync_count, promises>>

\* Mutated form: the last call is a set like the others.
StepSetLast(t) ==
    /\ kernel = "static_step" /\ pc[t] = "immediate" /\ ~Last(t)
    /\ IF StepComplete(m[t], t + 1, DIM)
       THEN Publish(m[t], t + 1, DIM)
       ELSE UNCHANGED <<choice, done, _isync_flag, _isync_count, promises>>
    /\ NextIteration(t)

\* heat_cpu_promise_plus ends with set_immediate(DIM_Y).
StepSetImmediate(t) ==
    /\ kernel = "static_step" /\ pc[t] = "immediate" /\ ~Last(t)
    /\ Publish(m[t], t + 1, DIM)
    /\ NextIteration(t)

Step(t) ==
    \/ update(t) \/ NoLeft(t) \/ NoRight(t)
    \/ SeeRaised(t) \/ Lower(t) \/ SeeLowered(t) \/ Raise(t)
    \/ CounterSyncLeft(t) \/ CounterSyncRight(t)
    \/ NaiveGet(t) \/ NaiveSet(t)
    \/ GetSeen(t) \/ GetRemember(t) \/ StepSet(t) \/ StepSetImmediate(t)

Next == \E t \in Thread: Step(t)

Spec == Init /\ [][Next]_vars
\* Every thread of the team is scheduled again and again.
FairSpec == Spec /\ \A t \in Thread: WF_vars(Step(t))

(***************************************************************************)
(* Properties.                                                             *)
(***************************************************************************)
PCs == {"get", "got", "update", "set", "setting", "immediate", "end"}
Index == None .. DIM
PromiseIndex == [Iteration -> [Thread -> Index]]

(* Every variable keeps its type, whatever the synchronisation. *)
TypeOK ==
    /\ kernel \in Kernels /\ step \in Steps
    /\ pc \in [Thread -> PCs] /\ m \in [Thread -> Iteration] /\ j \in [Thread -> 0 .. DIM - 1]
    /\ done \subseteq Cells(kernel)
    /\ _isync_flag \in [Thread -> BOOLEAN]
    /\ _isync_count \in [Thread -> 1 .. ITERATIONS]
    /\ _ready \in [Iteration -> [Thread -> SUBSET (0 .. DIM - 1)]]
    /\ _current_index_strong \in PromiseIndex
    /\ _current_index \in PromiseIndex
    /\ _current_index_weak \in PromiseIndex

\* The iterations thread t has signalled, and those it has been let into.
Signalled(t) == IF pc[t] = "end" THEN LastIteration(kernel) ELSE m[t] - 1
LetInto(t) == IF pc[t] \in {"get", "got"} THEN m[t] - 1 ELSE m[t]

HasRight == 0 .. N - 2

FlagsMeanWork ==
    kernel = "alt_bit" => \A t \in HasRight:
        Signalled(t) = LetInto(t + 1) + (IF _isync_flag[t] THEN 1 ELSE 0)

CountersMeanWork ==
    kernel = "counter" => \A t \in HasRight: _isync_count[t] = Signalled(t) + 1

NaivePromisesMeanWork ==
    \A t \in HasRight, i \in Iteration: \A r \in _ready[i][t + 1]:
        LET rows == IF kernel = "array_of_promises" THEN {r} ELSE 1 .. DIM - 1
        IN \A r2 \in rows: <<t, i, r2>> \in done

\* An index of the elimination promises the steps before it, of all ranks on
\* the left; one of the heat program the rows up to it.
StepPromisesMeanWork ==
    \A t \in HasRight, i \in Iteration:
        LET strong == _current_index_strong[i][t + 1]
        IN  /\ kernel = "static_step" =>
                   \A r \in 1 .. DIM - 1: r <= strong => <<t, i, r>> \in done
            /\ kernel = "lu" =>
                   \A u \in 0 .. t, r \in 0 .. DIM - 1: r < strong => <<u, 1, r>> \in done
            /\ _current_index_weak[i][t + 1] <= strong

(* A flag, a counter or a promise never announces work that is not done, no *)
(* matter how far the threads run ahead of each other: no signal of         *)
(* AltBitSynchronizer is lost or seen twice, and a step promise publishes   *)
(* an index only when everything up to it is there.                         *)
SignalsMeanWork ==
    FlagsMeanWork /\ CountersMeanWork /\ NaivePromisesMeanWork /\ StepPromisesMeanWork

(* No thread computes a cell before the cells that update_matrix, or the    *)
(* step of the elimination, reads.                                          *)
ComputesInOrder ==
    [][\A c \in done' \ done: Reads(kernel, c) \subseteq done]_vars

Abstract == INSTANCE Stencil

(* Each of the six synchronisations computes every cell, in an order that   *)
(* the sequential program could be given: no thread waits for ever for its  *)
(* neighbour, even for rows whose index the last step left unpublished.     *)
ImplementsStencil == Abstract!Spec

==============================================================================
