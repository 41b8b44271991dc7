------------------------------- MODULE MCEncoder -------------------------------
EXTENDS Encoder

CONSTANTS fragment, refine1, refine2, dedup1, dedup2, compress, reorder,
          toRefine1, toRefine2, toDedup1, toDedup2, toCompress, toReorder1, toReorder2

MCRefiners == {refine1, refine2}
MCDedupers == {dedup1, dedup2}
MCCompressors == {compress}

Wire(f, t) == IF t \in DOMAIN f THEN f[t] ELSE <<>>
All == {fragment, refine1, refine2, dedup1, dedup2, compress, reorder}

MCInputs == [t \in All |->
    CASE t = refine1 -> <<toRefine1>> [] t = refine2 -> <<toRefine2>>
      [] t = dedup1 -> <<toDedup1>> [] t = dedup2 -> <<toDedup2>>
      [] t = compress -> <<toCompress>> [] t = reorder -> <<toReorder1, toReorder2>>
      [] OTHER -> <<>>]
MCOutputs == [t \in All |->
    CASE t = fragment -> <<toRefine1, toRefine2>>
      [] t = refine1 -> <<toDedup1>> [] t = refine2 -> <<toDedup2>>
      [] t \in {dedup1, dedup2} -> <<toCompress>>
      [] t = compress -> <<toReorder1>> [] OTHER -> <<>>]
MCExtras == [t \in All |->
    IF t \in {dedup1, dedup2} THEN <<toReorder2>> ELSE <<>>]

MCFile == <<"a", "b", "a", "b", "a">>
MCAnchors == {1, 4}
MCStep == [t \in All |-> IF t \in {fragment, refine1, refine2} THEN 1 ELSE 2]
================================================================================
