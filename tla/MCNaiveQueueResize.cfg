\* Local buffers that shrink from 3 to 2, grow to 4 or refuse to change, twice each, and threads that
\* all return in the end.
CONSTANTS
    p1 = p1
    p2 = p2
    c1 = c1
    c2 = c2
    Producers = {p1}
    Consumers = {c1}
    N = 4
    Capacity = 2
    InitStep <- StepsMix
    NewSteps = {0, 1, 2, 4}
    MaxRequests = 2
    Spurious = FALSE
SPECIFICATION FairSpec
INVARIANT RoomToPush
PROPERTIES ImplementsChannel EveryThreadReturns
