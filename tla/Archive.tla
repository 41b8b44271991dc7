-------------------------------- MODULE Archive --------------------------------
(***************************************************************************)
(* What an encoder promises: the archive, decoded, is at any time a prefix *)
(* of the file, and grows.                                                 *)
(***************************************************************************)
EXTENDS Naturals, Sequences

CONSTANT File
VARIABLE decoded

Init == decoded = <<>>

Grow == \E n \in Len(decoded) + 1 .. Len(File) : decoded' = SubSeq(File, 1, n)

Spec == Init /\ [][Grow]_decoded
================================================================================
