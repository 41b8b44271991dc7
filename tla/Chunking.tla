-------------------------------- MODULE Chunking --------------------------------
(***************************************************************************)
(* The serial computations of src/dedup/encode_naive_queue.cpp: how a file *)
(* is cut into coarse chunks, a coarse chunk into fine ones, and how many  *)
(* of these are duplicates.                                                *)
(*                                                                         *)
(* A file is a sequence of contents, one per fine chunk it will be cut     *)
(* into: what SHA1 tells apart is a content.  Anchors are the places where *)
(* the Rabin fingerprint of the first pass finds the end of a coarse chunk;*)
(* MaxBuf and AnchorJump count fine chunks instead of bytes.               *)
(***************************************************************************)
EXTENDS Naturals, Sequences, FiniteSets

CONSTANTS File, Anchors, MaxBuf, AnchorJump

ASSUME ChunkingAssumption == /\ File \in Seq(STRING) /\ File # <<>>
                             /\ Anchors \subseteq Nat
                             /\ MaxBuf \in Nat \ {0}
                             /\ AnchorJump \in Nat

Earliest(s) == CHOOSE a \in s : \A b \in s : a <= b

\* The anchors found far enough from the beginning of the chunk, before the end of what was read
Found(s) == {a \in Anchors : s.from + AnchorJump <= a /\ a < s.read}

Chunk(s, to) == [l1 |-> Len(s.cuts), data |-> SubSeq(File, s.from, to)]
CutAt(s, to) == [read |-> s.read, from |-> to + 1, cuts |-> Append(s.cuts, Chunk(s, to))]

\* One iteration of FragmentNumbers: cut as long as there is such an anchor, else read; what is
\* left over keeps its number and is extended, and at the end of the file it is the last chunk.
Iterate(s) ==
    CASE Found(s) # {} -> CutAt(s, Earliest(Found(s)))
      [] Found(s) = {} /\ s.read < Len(File) ->
            [s EXCEPT !.read = IF @ + MaxBuf < Len(File) THEN @ + MaxBuf ELSE Len(File)]
      [] Found(s) = {} /\ s.read = Len(File) /\ s.from <= s.read -> CutAt(s, s.read)
      [] OTHER -> s

\* Every iteration reads or cuts.
Iterations == 2 * Len(File)
Scan[k \in 0..Iterations] ==
    IF k = 0 THEN [read |-> 0, from |-> 1, cuts |-> <<>>] ELSE Iterate(Scan[k - 1])

FragmentNumbers == Scan[Iterations].cuts

\* The chunks RefineNumbers cuts one coarse chunk into
RefineNumbers(coarse) ==
    [i \in 1..Len(coarse.data) |->
        [l1 |-> coarse.l1, l2 |-> i - 1, last |-> i = Len(coarse.data),
         data |-> coarse.data[i], isDuplicate |-> FALSE]]

\* One chunk of each content is compressed, the others are duplicates.
DeduplicateNumbers ==
    LET contents == {File[i] : i \in DOMAIN File}
    IN [compress |-> Cardinality(contents), deduplicate |-> Len(File) - Cardinality(contents)]
=================================================================================
