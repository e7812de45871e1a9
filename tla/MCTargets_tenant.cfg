SPECIFICATION MCSpec
CONSTANTS
    ann = ann
    bob = bob
    red = red
    blue = blue
    outside = outside
    title = title
    phone = phone
    v = v
    none = none
    Subjects = {ann, bob}
    Names <- MCNames
    EmailOf <- MCEmailOf
    Managed = {title}
    Foreign = {phone}
    AttrValues = {v}
    NoAttr = none
    NoId = NoId
    Wants <- MCWants
    Start <- MCStart
    Kinds = {"keycloak", "entra", "google", "scim_patch", "scim_put"}
    GroupsAtFirst <- MCFirstGroups
    MaxAccounts = 3
    MaxGroups = 5
    Budgets <- MCBudgets
    host = host
    port = port
    other = other
    unset = unset
    Slots = {s1, s2}
    NoSlot = NoSlot
    Keys = {host, port}
    Settings = {v, other}
    NoSetting = unset
    Patches <- MCPatches
    Calls = {c1, c2}
    Patchers = {e1, e2}
    MaxRequests = 2
    MaxExpiries = 1
    MaxPatches = 2
    Everybody <- MCEverybody
    AllGroups <- MCAllGroups
    Statuses <- MCStatuses
    PageSize = 2
    Percent = 40
    Floor = 1
    MaxChanges = 1
    MaxFailures = 1
    Apps = {app1}
    SamlApps = {app1}
    Contents = {v}
    NoClient = NoClient
    SsoWorkers = {w1, w2}
    Hardships <- MCHardships
    MaxSsoEvents = 3
    MaxClients = 2
    MaxSsoAttempts = 2
    Roster <- MCRoster
    Tenants = {"eve"}
    Profiles = {"v"}
    DriftKeys = {"k"}
    TeamNames = {"g"}
    WalkStatuses <- MCWalkStatuses
    WalkPage = 1
    FirstStaff <- MCFirstStaff
    MaxDriftEdits = 1
    MaxMeddling = 1
    Exchanges = {q1, q2}
    Clients = {"keycloak", "google", "mail"}
    NoToken = NoToken
    MaxThrottleRetries = 1
    MaxTokens = 2
    MaxThrottles = 2
    Officers = {o1}
    Bearers = {u1}
    CustomFields = {cost, desk}
    CoreFields = {}
    RemoteNames = {n1, n2}
    NoMapping = NoMapping
    NoField = NoField
    MaxMapEdits = 3
    MaxMapSyncs = 2
INVARIANTS PeopleStayInTheirRealm
CHECK_DEADLOCK FALSE
