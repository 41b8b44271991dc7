\* Two producers link chunks of one and two elements; the consumer takes two at most.
CONSTANTS
    p1 = p1
    p2 = p2
    c1 = c1
    c2 = c2
    Nobody = Nobody
    Producers = {p1, p2}
    Consumers = {c1}
    N = 2
    InitStep <- Taking2
    NewStep <- Ones
    ChangeAfter = 0
    Timed = {}
SYMMETRY Symmetry
SPECIFICATION Spec
INVARIANTS TypeOK NeitherThrows
PROPERTY ImplementsChannel
