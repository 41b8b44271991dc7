------------------------------ MODULE MCNaiveQueue ------------------------------
EXTENDS NaiveQueue, TLC

CONSTANTS p1, p2, c1, c2

StepTwo   == [t \in Threads |-> 2]
StepThree == [t \in Threads |-> 3]
StepsMix  == [t \in Threads |-> IF t \in Producers THEN 3 ELSE 2]

Symmetry == Permutations(Producers) \cup Permutations(Consumers)
=================================================================================
