SPECIFICATION MCPublicationSpec
CONSTANTS
    People = {ann, bob, eve}
    Nobody = Nobody
    Admins = {eve}
    Matching = {ann}
    Requests = {q1}
    Formula = Formula
    ManagersFirst = TRUE
    Creator = eve
    Sessions = {s1, s2}
    MaxClock = 0
    MaxWrites = 0
    r1 = r1
    r2 = r2
    ann = ann
    RoleIds = {r1, r2}
    SortedKeys <- MCSortedKeys
    Formulas <- MCFormulas
    NoDraft = NoDraft
    FirstKeys = {"k1"}
    FirstFormula <- MCFirstFormula
    Callers = {c1, c2}
    MaxCalls = 5
    Texts = {"12", "12.0", "day", "time"}
    Decimals = {"12", "12.0"}
    Shown <- MCShown
    Days = {"day"}
    Timestamps = {"time"}
    Options = {"12"}
    DataTypes = {"string", "number", "date"}
    Holders = {1, 2}
    NoValue = NoValue
    MigrationPercent = 50
    MigrationFloor = 1
    MaxEdits = 0
INVARIANTS NoSelfGrantedRole
CHECK_DEADLOCK FALSE
