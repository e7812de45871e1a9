SPECIFICATION OffboardingSpec
CONSTANTS
    Streams <- MCStreams
    Users = {u1}
    NoUser = NoUser
    Groups = {g1}
    NoGroup = NoGroup
    Kinds = {"edit", "deactivate", "rename", "join", "leave"}
    MaxCrashes = 1
    NoStream = NoStream
    Producers = {p1}
    Workers = {w1, w2}
    Operators = {o1}
    MaxEvents = 2
    MaxAttempts = 2
    MaxRetries = 1
SYMMETRY Symmetry
INVARIANTS NeverSilentlyStale PersonBadgeIsHonest
PROPERTIES ProfileNeverRegresses SignInOnlyWhileOwed
CHECK_DEADLOCK FALSE
