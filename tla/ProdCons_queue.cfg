\* Two producers of two items, two consumers, a queue of two slots, and
\* threads that may fail to start: main may then wait for ever.
SPECIFICATION FairSpec
CONSTANTS
    Producers = {p1, p2}
    Consumers = {c1, c2}
    LOOP = 2
    QUEUESIZE = 2
    CreateMayFail = TRUE
    NoItem = NoItem
INVARIANTS
    TypeOK
    NoLostWakeup
    DeletedWhenCounted
PROPERTIES
    Completes
    ImplementsBoundedQueue
CHECK_DEADLOCK FALSE
