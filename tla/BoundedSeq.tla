------------------------------- MODULE BoundedSeq -------------------------------
(***************************************************************************)
(* What a thread-local buffer of a NaiveQueue promises to the thread that  *)
(* owns it: a first-in first-out sequence whose capacity (the "step" of    *)
(* the queue) can be changed between two operations, and that never loses, *)
(* repeats or reorders an element when it is.                              *)
(* RingBuffer shows how the array of src/naive_queue.hpp keeps it.         *)
(***************************************************************************)
EXTENDS Naturals, Sequences

CONSTANTS Values,     \* what the buffer can hold
          MaxStep     \* largest capacity

VARIABLES queue,      \* the elements, oldest first
          step,       \* the capacity
          answer      \* what the last operation returned

vars == <<queue, step, answer>>

Ok       == [ok |-> TRUE,  item |-> <<>>]
Refused  == [ok |-> FALSE, item |-> <<>>]
Taken(v) == [ok |-> TRUE,  item |-> <<v>>]

Init == /\ queue = <<>>
        /\ step \in 1..MaxStep
        /\ answer = Ok

Push(v) ==
    /\ \/ /\ Len(queue) < step
          /\ queue' = Append(queue, v)
          /\ answer' = Ok
       \/ /\ Len(queue) = step
          /\ answer' = Refused
          /\ UNCHANGED queue
    /\ UNCHANGED step

Pop ==
    /\ \/ /\ queue # <<>>
          /\ answer' = Taken(Head(queue))
          /\ queue' = Tail(queue)
       \/ /\ queue = <<>>
          /\ answer' = Refused
          /\ UNCHANGED queue
    /\ UNCHANGED step

\* A smaller capacity is accepted only if one free place is left under it.
Resize(s) ==
    /\ \/ /\ s >= step \/ Len(queue) < s
          /\ step' = s
          /\ answer' = Ok
       \/ /\ s < step /\ Len(queue) >= s
          /\ answer' = Refused
          /\ UNCHANGED step
    /\ UNCHANGED queue

Next == \/ \E v \in Values : Push(v)
        \/ Pop
        \/ \E s \in 0..MaxStep : Resize(s)

Spec == Init /\ [][Next]_vars
=================================================================================
