SPECIFICATION FairSpec
CONSTANTS
    Streams = {s1, s2}
    NoStream = NoStream
    Producers = {p1, p2}
    Workers = {w1, w2}
    Operators = {o1}
    MaxEvents = 3
    MaxAttempts = 2
    MaxRetries = 1
INVARIANTS StreamOrder
PROPERTIES EveryEventSettles ImplementsQueue
CHECK_DEADLOCK FALSE
