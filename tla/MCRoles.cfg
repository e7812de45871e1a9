SPECIFICATION MCSpec
CONSTANTS
    Roles = {r1}
    Groups = {"g1"}
    Accounts = {"t1"}
    EntitledOnly = {"t1"}
    Jobs = {"engineer", "clerk"}
    Definitions <- ForActiveEngineers
    Sessions = {s1, s2}
    MaxClock = 0
    MaxWrites = 2
SYMMETRY Symmetry
INVARIANTS RevokedAccountIsOwed EvaluatorMeetsItsMeaning
PROPERTIES ManualRowsSurvive
CHECK_DEADLOCK FALSE
