\* Two producers and two consumers: a push that finds the queue non-empty, or
\* a pop that finds it non-full, notifies nobody while another thread waits.
CONSTANTS
    Producers = {p1, p2}
    Consumers = {c1, c2}
    Values = {v1}
    NoValue = NoValue
    max_size = 2
SPECIFICATION FairSpec
INVARIANTS
    TypeOK
    NeverAllAsleep
PROPERTIES
    RefinesBoundedQueue
    NeverStalls
CHECK_DEADLOCK TRUE
