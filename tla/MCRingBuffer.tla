------------------------------ MODULE MCRingBuffer ------------------------------
(* A ring of up to Cells cells, holding any sequence of two values.          *)
EXTENDS RingBuffer, TLC

Symmetry == Permutations(Values)
=================================================================================
