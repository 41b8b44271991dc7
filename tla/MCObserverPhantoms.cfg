\* A phantom producer, two reports of each side; the producers' local queues grow from three elements
\* to four, the consumer's shrinks to two, which it refuses while it holds two or more.
SPECIFICATION FairSpec
CONSTANTS
    Producers = {p1}
    Phantoms = {p2}
    Consumers = {c1}
    FirstN = 2
    SecondN = 1
    InitStep = 3
    FirstStep <- FourTwo
    SecondStep <- FourTwo
INVARIANTS EnoughReports TriggeredOnce PushTimeKnown SecondPhaseFollowsFirst
PROPERTY EveryQueueReconfigured
