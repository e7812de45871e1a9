------------------------------- MODULE MCRoles -------------------------------
(***************************************************************************)
(* The reconciler at work, or the evaluator alone: every pair of roles     *)
(* over a small vocabulary, evaluated for every user.  One of the two per  *)
(* behaviour; the other stays where it began.                              *)
(***************************************************************************)
EXTENDS Entitlements, TLC

Job(job) ==
    [field |-> [column |-> "jobTitle", key |-> "-"], operator |-> "equals",
     value |-> Text(<<job>>)]

WhileActive ==
    [field |-> [column |-> "status", key |-> "-"], operator |-> "equals",
     value |-> Text(<<"active">>)]

NewerThanThisBinary ==
    [field |-> [column |-> "costCentre", key |-> "-"], operator |-> "equals", value |-> Null]

Define(conditions, grants) == [conditions |-> conditions, grants |-> grants]

ForActiveEngineers ==
    {Define(<<Job("engineer"), WhileActive>>, Entitlements),
     Define(<<Job("engineer"), NewerThanThisBinary>>, Entitlements)}

Symmetry == Permutations(Sessions)

VARIABLES user, roles, instant, cast

Column(name) == [column |-> name, key |-> "-"]

Sales == Text(<<"acme", "sales">>)

Conditions ==
    {[field |-> Column("jobTitle"), operator |-> "equals", value |-> Text(<<"engineer">>)],
     [field |-> Column("status"), operator |-> "in", value |-> List({<<"active">>, <<"pending">>})],
     [field |-> Column("orgUnitId"), operator |-> "in_org_subtree", value |-> Sales],
     [field |-> [column |-> "attributes", key |-> "cost"], operator |-> "not_equals", value |-> Null],
     [field |-> Column("jobTitle"), operator |-> "in", value |-> Text(<<"engineer">>)],
     [field |-> Column("jobTitle"), operator |-> "in_org_subtree", value |-> Sales],
     [field |-> Column("managerId"), operator |-> "equals", value |-> Null]}

Users ==
    {[id |-> "u1", jobTitle |-> job, location |-> Null, status |-> Text(<<"active">>),
      orgUnitId |-> Text(<<"unit">>), orgUnitPath |-> path, attributes |-> attrs] :
        job \in {Text(<<"engineer">>), Text(<<"unit">>), Null},
        path \in {<<"acme", "sales", "emea">>, <<"acme", "salesops">>},
        attrs \in {[k \in {} |-> Null], [k \in {"cost"} |-> Text(<<"42">>)]}}

Somebody == CHOOSE u \in Users : TRUE

ExceptionFor(u, m, e) == [userId |-> u, mode |-> m, expiresAt |-> e]

Exceptions ==
    {<<>>,
     <<ExceptionFor("u1", "include", 1), ExceptionFor("u1", "exclude", 0)>>,
     <<ExceptionFor("u1", "exclude", 0), ExceptionFor("u1", "include", 1)>>,
     <<ExceptionFor("u2", "exclude", 1), ExceptionFor("u1", "include", 0)>>}
    \cup {<<ExceptionFor(u, m, e)>> : u \in {"u1", "u2"}, m \in {"include", "exclude"}, e \in {0, 1}}

Formulas == {<<>>} \cup {<<c>> : c \in Conditions} \cup {<<c, d>> : c, d \in Conditions}

Role(id, formula, exceptions) ==
    [id |-> id, conditions |-> formula, grants |-> {"shared", id}, exceptions |-> exceptions]

EvaluatorInit ==
    /\ user \in Users
    /\ instant \in {0, 1}
    /\ \E f \in Formulas, x \in Exceptions : roles = <<Role("r1", f, x)>>

(* A second role, before or after the first.                               *)
AddRole ==
    /\ cast = "evaluator"
    /\ Len(roles) = 1
    /\ \E c \in Conditions, x \in {<<>>, <<ExceptionFor("u1", "include", 0)>>} :
          LET other == Role("r2", <<c>>, x)
          IN roles' \in {<<other>> \o roles, roles \o <<other>>}
    /\ UNCHANGED <<user, instant>>

MCInit ==
    /\ EntitlementsInit
    /\ \/ cast = "reconciler" /\ user = Somebody /\ roles = <<>> /\ instant = 0
       \/ cast = "evaluator" /\ EvaluatorInit
          /\ enabled = {} /\ definition \in [Roles -> {CHOOSE d \in Definitions : TRUE}]
          /\ person.job = "clerk" /\ held \in [Entitlements -> {"none"}]

MCNext ==
    \/ AddRole /\ UNCHANGED <<evars, cast>>
    \/ cast = "reconciler" /\ EntitlementsNext /\ UNCHANGED <<user, roles, instant, cast>>

MCSpec == MCInit /\ [][MCNext]_<<evars, user, roles, instant, cast>>

(* evaluateRoles answers what the roles mean, whatever the order the       *)
(* database returns roles and conditions in: exclude, include and formula  *)
(* in that precedence, and a refusal, never a guess, when a condition that *)
(* still matters is not understood.                                        *)
EvaluatorMeetsItsMeaning ==
    EvaluateRoles(user, roles, instant) = Meaning(user, ToSet(roles), instant)
=============================================================================
