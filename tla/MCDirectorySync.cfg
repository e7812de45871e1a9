SPECIFICATION MCFairSpec
CONSTANTS
    Streams <- MCStreams
    Users = {u1, u2}
    NoUser = NoUser
    Groups = {g1, g2}
    NoGroup = NoGroup
    Kinds = {"rename"}
    MaxCrashes = 1
    NoStream = NoStream
    Producers = {p1}
    Workers = {w1, w2}
    Operators = {o1}
    MaxEvents = 2
    MaxAttempts = 2
    MaxRetries = 0
PROPERTIES Converges
CHECK_DEADLOCK FALSE
