SPECIFICATION MCSpec
CONSTANTS
    r1 = r1
    r2 = r2
    ann = ann
    bob = bob
    Units = {r1, r2, u1, u2}
    u1 = u1
    u2 = u2
    RootOf <- MCRootOf
    FirstTrees <- MCFirstTrees
    Labels = {"a", "b", "c"}
    People = {ann, bob}
    FirstGrants <- MCFirstGrants
    GrantRoles = {"super_admin"}
    Sessions = {s1, s2}
    Nobody = Nobody
    Everywhere = Everywhere
    MaxWrites = 2
    Groups = {g1, g2, g3}
    FirstGroups = {g1, g2}
    Users = {x1}
    Requests = {q1, q2}
    NoOne = NoOne
    MaxGroupWrites = 4
SYMMETRY Symmetry
INVARIANTS
    PathsFollowParents
    NoCycles
    NestedListsAreComplete
PROPERTIES
    GrantsStayInReach
CHECK_DEADLOCK FALSE
