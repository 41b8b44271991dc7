------------------------------- MODULE Stencil -------------------------------
(***************************************************************************)
(* What the parallel kernels of the heat and LU programs promise: the      *)
(* cells are computed in some order in which every cell comes after the    *)
(* cells it reads, and all of them are computed in the end.                *)
(***************************************************************************)
CONSTANTS Kernels, Cells(_), Reads(_, _)

VARIABLES kernel, done
vars == <<kernel, done>>

Init == kernel \in Kernels /\ done = {}

(* A cell is computed once, from cells that are final. *)
Compute(c) ==
    /\ c \in Cells(kernel) \ done
    /\ Reads(kernel, c) \subseteq done
    /\ done' = done \cup {c}
    /\ UNCHANGED kernel

Next == \E c \in Cells(kernel): Compute(c)

Spec == Init /\ [][Next]_vars /\ WF_vars(Next)
==============================================================================
