----------------------------- MODULE MCWavefront -----------------------------
(***************************************************************************)
(* Every synchronisation of the heat and LU programs on a small team.      *)
(***************************************************************************)
EXTENDS Wavefront
==============================================================================
