------------------------------- MODULE RingBuffer -------------------------------
(***************************************************************************)
(* The array behind a queue: Ringbuffer (src/naive_queue.hpp, the shared   *)
(* part) and the local part of NaiveQueueImpl, which has the same push and *)
(* pop and can also be resized while it holds elements.                    *)
(*                                                                         *)
(* _head is the cell of the next insertion, _tail the oldest element; one  *)
(* cell always stays free so that a full array and an empty one differ.    *)
(* _size counts that cell: the step of the queue is _size - 1.             *)
(***************************************************************************)
EXTENDS Integers, Sequences

CONSTANTS Values,     \* what a cell can be given
          Garbage,    \* what malloc leaves in a cell
          Cells       \* cells allocated at construction (1000000 in the code)

ASSUME CellsAssumption == Cells \in Nat /\ Cells >= 2
ASSUME GarbageAssumption == Garbage \notin Values

VARIABLES data, head, tail, nElements, size, answer

vars == <<data, head, tail, nElements, size, answer>>

Ok       == [ok |-> TRUE,  item |-> <<>>]
Refused  == [ok |-> FALSE, item |-> <<>>]
Taken(v) == [ok |-> TRUE,  item |-> <<v>>]

Init == /\ data = [i \in 0..Cells-1 |-> Garbage]
        /\ head = 0 /\ tail = 0 /\ nElements = 0
        /\ size \in 2..Cells
        /\ answer = Ok

Empty == tail = head
Full  == head = (tail - 1 + size) % size

\* Mutated form: the head runs past the last cell.
PushPastTheEnd(v) ==
    /\ ~Full
    /\ data' = [data EXCEPT ![head] = v]
    /\ head' = head + 1
    /\ nElements' = nElements + 1
    /\ answer' = Ok
    /\ UNCHANGED <<tail, size>>

Push(v) ==
    \/ /\ Full
       /\ answer' = Refused
       /\ UNCHANGED <<data, head, tail, nElements, size>>
    \/ /\ ~Full
       /\ data' = [data EXCEPT ![head] = v]
       /\ head' = IF head + 1 = size THEN 0 ELSE head + 1
       /\ nElements' = nElements + 1
       /\ answer' = Ok
       /\ UNCHANGED <<tail, size>>

Pop ==
    \/ /\ Empty
       /\ answer' = Refused
       /\ UNCHANGED <<data, head, tail, nElements, size>>
    \/ /\ ~Empty
       /\ answer' = Taken(data[tail])
       /\ tail' = IF tail + 1 >= size THEN 0 ELSE tail + 1
       /\ nElements' = nElements - 1
       /\ UNCHANGED <<data, head, size>>

\* Mutated form: memcpy, cell by cell in increasing order, over ranges that overlap
MovedByMemcpy(dst, src, n) ==
    [i \in 0..Cells-1 |->
        IF i \in dst..(dst + n - 1)
        THEN IF dst > src THEN data[src + ((i - dst) % (dst - src))] ELSE data[src + i - dst]
        ELSE data[i]]

\* memmove of n cells from src to dst
Moved(dst, src, n) ==
    [i \in 0..Cells-1 |-> IF i \in dst..(dst + n - 1) THEN data[src + i - dst] ELSE data[i]]

\* Mutated form: a wrapped array is left where it is.
RelocateNothing(newSize) ==
    /\ newSize \in 2..Cells
    /\ UNCHANGED <<data, head, tail>>

(***************************************************************************)
(* The elements that start at _tail, when the array wraps, are kept        *)
(* against the end of the array: they move with it, by the change of size. *)
(***************************************************************************)
Relocate(newSize) ==
    \/ /\ head = tail
       /\ head' = 0 /\ tail' = 0
       /\ UNCHANGED data
    \/ /\ head > tail
       /\ IF newSize < size /\ head > newSize - 1
          THEN /\ data' = Moved(0, tail, nElements)
               /\ head' = nElements
               /\ tail' = 0
          ELSE UNCHANGED <<data, head, tail>>
    \/ /\ head < tail
       /\ data' = Moved(tail + newSize - size, tail, size - tail)
       /\ tail' = tail + newSize - size
       /\ UNCHANGED head

Resize(step) ==
    \/ /\ step = size - 1
       /\ answer' = Ok
       /\ UNCHANGED <<data, head, tail, nElements, size>>
    \/ /\ step < size - 1 /\ nElements >= step
       /\ answer' = Refused
       /\ UNCHANGED <<data, head, tail, nElements, size>>
    \/ /\ step # size - 1
       /\ ~(step < size - 1 /\ nElements >= step)
       /\ Relocate(step + 1)
       /\ size' = step + 1
       /\ answer' = Ok
       /\ UNCHANGED nElements

Next == \/ \E v \in Values : Push(v)
        \/ Pop
        \/ \E step \in 0..Cells-1 : Resize(step)

Spec == Init /\ [][Next]_vars
---------------------------------------------------------------------------------
Count == IF head >= tail THEN head - tail ELSE head + size - tail

\* The cell of the k-th oldest element
Cell(k) == IF tail + k - 1 < size THEN tail + k - 1 ELSE tail + k - 1 - size

\* The elements, oldest first, read through the wrap-around.
Contents == [k \in 1..Count |-> data[Cell(k)]]

\* Types, and the indices stay inside the part of the array in use.
TypeOK == /\ data \in [0..Cells-1 -> Values \cup {Garbage}]
          /\ size \in 2..Cells
          /\ head \in 0..size-1
          /\ tail \in 0..size-1
          /\ nElements \in 0..size-1
          /\ answer \in {Ok, Refused} \cup {Taken(v) : v \in Values \cup {Garbage}}

(***************************************************************************)
(* The element counter, which decides whether a resize is accepted and how *)
(* many elements it moves, always agrees with the two indices.             *)
(***************************************************************************)
CounterAgrees == nElements = Count

(***************************************************************************)
(* The array implements a resizable bounded sequence: push, pop and every  *)
(* resize return and keep exactly what the sequence does, so no resize     *)
(* loses, repeats or reorders an element or hands out an unwritten cell.   *)
(***************************************************************************)
Sequence == INSTANCE BoundedSeq WITH queue <- Contents, step <- size - 1,
                                     MaxStep <- Cells - 1
ImplementsBoundedSeq == Sequence!Spec
=================================================================================
