\* Two producers whose quantities change by both methods, two consumers; all return.
SPECIFICATION FairSpec
CONSTANTS
    p1 = p1
    p2 = p2
    c1 = c1
    c2 = c2
    Producers = {p1, p2}
    Consumers = {c1, c2}
    N = 4
    Share <- MCShare
    Methods = {"gradient", "phase"}
    Smallest = 1
    First = 1
    Largest = 2
    Taken = 2
    NoWork = 2
    WithWork = 3
    WorkAmount = 2
    Increase = 150
    Decrease = 40
    HistorySize = 3
INVARIANTS TypeOK SomebodyComes
PROPERTIES ImplementsChannel EveryThreadReturns
CHECK_DEADLOCK FALSE
