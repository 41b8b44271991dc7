\* Two producers and two consumers; local buffers of 3, which one request per thread reduces to 2 or
\* cannot reduce while it holds 2, and that then exceed the shared buffer.
CONSTANTS
    p1 = p1
    p2 = p2
    c1 = c1
    c2 = c2
    Producers = {p1, p2}
    Consumers = {c1, c2}
    N = 2
    Capacity = 1
    InitStep <- StepThree
    NewSteps = {2}
    MaxRequests = 1
    Spurious = TRUE
SYMMETRY Symmetry
SPECIFICATION Spec
INVARIANTS TypeOK NoLostWakeup RequestTakesEffect EndMeansDrained
PROPERTY ImplementsChannel
