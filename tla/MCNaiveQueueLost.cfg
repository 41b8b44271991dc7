\* A second request that meets the end of the first one.
CONSTANTS
    p1 = p1
    p2 = p2
    c1 = c1
    c2 = c2
    Producers = {p1}
    Consumers = {c1}
    N = 2
    Capacity = 1
    InitStep <- StepTwo
    NewSteps = {1, 3}
    MaxRequests = 2
    Spurious = FALSE
SPECIFICATION Spec
INVARIANT RequestTakesEffect
