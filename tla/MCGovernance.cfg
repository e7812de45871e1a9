SPECIFICATION MCSpec
CONSTANTS
    People = {ann, bob, eve}
    Nobody = Nobody
    Admins = {eve}
    Matching = {ann}
    Requests = {q1}
    Formula = Formula
    ManagersFirst = TRUE
    Creator = eve
    Sessions = {s1, s2}
    MaxClock = 1
    MaxWrites = 3
    r1 = r1
    r2 = r2
    ann = ann
    RoleIds = {r1, r2}
    SortedKeys <- MCSortedKeys
    Formulas <- MCFormulas
    NoDraft = NoDraft
    FirstKeys = {"k1"}
    FirstFormula <- MCFirstFormula
    Callers = {c1, c2}
    MaxCalls = 6
    Texts = {"12", "12.0", "day", "time"}
    Decimals = {"12", "12.0"}
    Shown <- MCShown
    Days = {"day"}
    Timestamps = {"time"}
    Options = {"12"}
    DataTypes = {"string", "number", "date"}
    Holders = {1, 2}
    NoValue = NoValue
    MigrationPercent = 50
    MigrationFloor = 1
    MaxEdits = 2
SYMMETRY Symmetry
INVARIANTS
    NobodyDecidesTheirOwn
    NoCircleOfWaiters
PROPERTIES
    DecisionsAreFinal
    ApprovalsCarryTheirException
    PublishedAsSimulated
    OnlyApprovedValuesChange
CHECK_DEADLOCK FALSE
