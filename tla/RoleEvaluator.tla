---------------------------- MODULE RoleEvaluator ----------------------------
(***************************************************************************)
(* business-roles/role-evaluator.ts: which entitlements a set of business  *)
(* roles gives one person.  A string is a text: the sequence of its        *)
(* dot-separated labels, so an ltree path is a text like any other.        *)
(***************************************************************************)
EXTENDS Integers, SequencesExt

(* The answer to a condition the running binary does not understand.       *)
Verdicts == {"yes", "no", "unknown"}

Known(b) == IF b THEN "yes" ELSE "no"

Null == [shape |-> "null", of |-> <<>>]

Text(labels) == [shape |-> "text", of |-> labels]

List(texts) == [shape |-> "list", of |-> texts]

ConditionFields == {"jobTitle", "location", "status", "orgUnitId"}

(* extractField: a column of the allowlist, or attributes.<key>.           *)
FieldKnown(field) == field.column \in ConditionFields \/ field.column = "attributes"

FieldValue(field, user) ==
    IF field.column \in ConditionFields THEN user[field.column]
    ELSE IF field.key \in DOMAIN user.attributes THEN user.attributes[field.key] ELSE Null

Scalar(v) == v.shape # "list"

ScalarEquals(v, w) == Scalar(v) /\ Scalar(w) /\ v.shape = w.shape /\ v.of = w.of

IsAtOrBelow(path, ancestor) == IsPrefix(ancestor, path)

(* OPERATOR_MATCHERS; an operator outside the catalog is not understood.   *)
OperatorMatch(operator, v, w, user) ==
    CASE operator = "equals" -> Known(ScalarEquals(v, w))
      [] operator = "not_equals" -> Known(~ScalarEquals(v, w))
      [] operator = "in" ->
            IF Scalar(w) THEN "unknown" ELSE Known(\E t \in w.of : ScalarEquals(v, Text(t)))
      [] operator = "in_org_subtree" ->
            IF ~ScalarEquals(v, user.orgUnitId) \/ w.shape # "text" \/ w.of = <<>>
            THEN "unknown"
            ELSE Known(IsAtOrBelow(user.orgUnitPath, w.of))
      [] OTHER -> "unknown"

MatchCondition(c, user) ==
    IF ~FieldKnown(c.field) THEN "unknown"
    ELSE OperatorMatch(c.operator, FieldValue(c.field, user), c.value, user)

(* Mutant of MatchesConditions: the loop stops at the first mismatch.      *)
MatchesShortCircuit(conditions, user) ==
    IF conditions = <<>> THEN "no"
    ELSE FoldLeft(LAMBDA acc, c : IF acc = "yes" THEN MatchCondition(c, user) ELSE acc,
                  "yes", conditions)

(* matchesConditions: returns at the first condition it does not           *)
(* understand, and goes on after a mismatch.                               *)
MatchesConditions(conditions, user) ==
    LET verdict[n \in 0..Len(conditions)] ==
            IF n = 0 THEN "yes"
            ELSE LET m == MatchCondition(conditions[n], user)
                 IN IF verdict[n - 1] = "unknown" \/ m = "yes" THEN verdict[n - 1] ELSE m
    IN IF conditions = <<>> THEN "no" ELSE verdict[Len(conditions)]

(* Live up to and including the instant it expires at.                     *)
IsLive(x, now) == x.expiresAt >= now

(* The loop of explainRoleHold over the role's exceptions: an exclude ends *)
(* it, an include is remembered.                                           *)
Exceptional(role, user, now) ==
    LET mode[n \in 0..Len(role.exceptions)] ==
            IF n = 0 THEN "neither"
            ELSE LET x == role.exceptions[n]
                 IN IF mode[n - 1] = "exclude" \/ x.userId # user.id \/ ~IsLive(x, now)
                    THEN mode[n - 1] ELSE x.mode
    IN mode[Len(role.exceptions)]

HoldsRole(role, user, now) ==
    CASE Exceptional(role, user, now) = "exclude" -> "no"
      [] Exceptional(role, user, now) = "include" -> "yes"
      [] OTHER -> MatchesConditions(role.conditions, user)

Refused == [evaluable |-> FALSE, grants |-> {}]

(* evaluateRoles: the union of the grants of every role held; one role it  *)
(* cannot evaluate and there is no answer at all.                          *)
EvaluateRoles(user, roles, now) ==
    LET answer[n \in 0..Len(roles)] ==
            IF n = 0 THEN [evaluable |-> TRUE, grants |-> {}]
            ELSE LET held == HoldsRole(roles[n], user, now)
                     before == answer[n - 1]
                 IN IF ~before.evaluable \/ held = "unknown" THEN Refused
                    ELSE IF held = "yes"
                    THEN [evaluable |-> TRUE, grants |-> before.grants \cup roles[n].grants]
                    ELSE before
    IN answer[Len(roles)]

-----------------------------------------------------------------------------
(* What the roles mean, with no order of evaluation: exclude beats         *)
(* include, include beats the formula, an expired exception is absent; a   *)
(* formula is a conjunction that no false conjunct may decide while another *)
(* is not understood, and no conjunct at all means nobody.                 *)
Live(role, user, now) ==
    {x \in ToSet(role.exceptions) : x.userId = user.id /\ x.expiresAt >= now}

Decided(role, user, now) == Live(role, user, now) # {}

Excluded(role, user, now) == \E x \in Live(role, user, now) : x.mode = "exclude"

NotUnderstood(role, user) ==
    \E c \in ToSet(role.conditions) : MatchCondition(c, user) = "unknown"

Satisfied(role, user) ==
    /\ role.conditions # <<>>
    /\ \A c \in ToSet(role.conditions) : MatchCondition(c, user) = "yes"

Entitled(role, user, now) ==
    IF Decided(role, user, now) THEN ~Excluded(role, user, now)
    ELSE Satisfied(role, user)

Meaning(user, roles, now) ==
    IF \E role \in roles : ~Decided(role, user, now) /\ NotUnderstood(role, user)
    THEN Refused
    ELSE [evaluable |-> TRUE,
          grants |-> UNION {role.grants : role \in {r \in roles : Entitled(r, user, now)}}]
=============================================================================
