SPECIFICATION MCSpec
CONSTANTS
    Roles = {role}
    Groups = {"g1"}
    Accounts = {}
    EntitledOnly = {}
    Jobs = {"engineer", "clerk"}
    Definitions <- ForEngineers
    Sessions = {s1, s2}
    MaxClock = 1
    MaxWrites = 1
    Folk = {bob}
    Processes = {p1, p2}
    MaxOrgEvents = 2
    MaxRealmAttempts = 2
    MaxRealmFaults = 1
    MaxRevivals = 1
    top = top
    dept = dept
    team = team
    new = new
    a = a
    c = c
    ann = ann
    r1 = r1
    r2 = r2
    nobody = nobody
    Ous <- MCOus
    RootOu = top
    ParentOf <- MCParentOf
    FirstName <- MCFirstName
    Rdns = {a, c}
    NoName = nobody
    Staff = {ann}
    FirstUnit <- MCFirstUnit
    Replicas = {r1, r2}
    NoPath = NoPath
    CreateMissingOrgUnits = TRUE
    MaxTreeChanges = 3
    MaxTreeFaults = 1
INVARIANTS
    QuietProvisioningNeverFails
PROPERTIES
    EntitlementsConverge
    PeopleArrive
    PeopleReachTheirUnit
CHECK_DEADLOCK FALSE
