------------------------------- MODULE MCSmartFifo -------------------------------
EXTENDS SmartFifo, TLC

CONSTANTS p1, p2, c1, c2

Ones  == [t \in Threads |-> 1]
Taking2 == [t \in Threads |-> IF t \in Producers THEN 1 ELSE 2]
Taking3 == [t \in Threads |-> IF t \in Producers THEN 1 ELSE 3]

Symmetry == Permutations(Producers) \cup Permutations(Consumers)
==================================================================================
