------------------------------ MODULE MCFifoPlus ------------------------------
(***************************************************************************)
(* FIFOPlus with two producers of unequal loads and two consumers.         *)
(***************************************************************************)
EXTENDS FifoPlus, TLC

CONSTANTS p1, p2, c1, c2

MCShare == p1 :> 4 @@ p2 :> 1
=================================================================================
