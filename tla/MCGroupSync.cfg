SPECIFICATION MCSpec
CONSTANTS
    Streams <- MCStreams
    Users = {u1, u2}
    Groups = {g1}
    Provisioned = {u1}
    MaxCrashes = 1
    NoStream = NoStream
    Producers = {p1, p2}
    Workers = {w1}
    Operators = {o1}
    MaxEvents = 3
    MaxAttempts = 2
    MaxRetries = 1
    Topics = {all, other}
    Whole = all
    Rows = {row}
    Nothing = Nothing
    MaxSends = 2
    MaxEdits = 1
    MaxAsks = 2
INVARIANTS
    KnownMembersNeverSilentlyStale
    
    WaitsEnd
CHECK_DEADLOCK FALSE
