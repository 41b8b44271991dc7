------------------------------- MODULE MCObserver -------------------------------
EXTENDS Observer

\* The producers' queues grow; the consumers' shrink when they hold little enough.
FourTwo == [t \in Threads |-> IF t \in Consumers THEN 2 ELSE 4]
=================================================================================
