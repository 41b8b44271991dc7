\* Two consumers whose step changes, one with timeouts, share the chunks of one producer; all return.
CONSTANTS
    p1 = p1
    p2 = p2
    c1 = c1
    c2 = c2
    Nobody = Nobody
    Producers = {p1}
    Consumers = {c1, c2}
    N = 3
    InitStep <- Taking3
    NewStep <- Ones
    ChangeAfter = 2
    Timed = {c1}
SPECIFICATION FairSpec
INVARIANTS WaiterIsReleased ReferencesBalanced
PROPERTIES ImplementsChannel EveryThreadReturns
