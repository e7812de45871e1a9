----------------------------- MODULE MCLifecycle -----------------------------
(***************************************************************************)
(* Requests, the two jobs, the rules and the imports on the same people;   *)
(* by itself, the fetch of the feed an import is made of.                  *)
(***************************************************************************)
EXTENDS Lifecycle, Imports, HrIntake, TLC

CONSTANTS ana, bob, hq, site, badge, team, x, y, never, unset, leave, mark, daily, pending, feed, upload, s1

Attrs(b, t) == badge :> b @@ team :> t

Ana == [status |-> "active", unit |-> hq, start |-> 0, end |-> 1, attrs |-> Attrs(unset, unset)]

Bob == [status |-> "pending", unit |-> hq, start |-> 1, end |-> never, attrs |-> Attrs(y, unset)]

MCFirstRows == {ana :> Ana @@ bob :> Bob, ana :> Ana @@ bob :> Absent}

MCPatches == {[field |-> "end", value |-> 0]}

(* A joiner gets a badge; a joiner with the wrong one is turned away.       *)
MCRuleOf ==
    mark :> [trigger |-> "start_date_reached", field |-> "status", operator |-> "equals",
             value |-> "active", action |-> "set_attribute", key |-> badge, set |-> x]
    @@ leave :> [trigger |-> "start_date_reached", field |-> badge, operator |-> "in",
                 value |-> {y}, action |-> "deactivate"]

FileRow(p, ok, unit, end) ==
    [who |-> p, ok |-> ok, unit |-> unit, start |-> 0, end |-> end, attrs |-> Attrs(y, unset)]

(* Everybody, and a file with a row that cannot be read and a second one of *)
(* somebody it names already.                                               *)
MCFiles ==
    {[rows |-> <<FileRow(ana, TRUE, hq, 0), FileRow(bob, TRUE, hq, never)>>, extra |-> TRUE],
     [rows |-> <<FileRow(ana, FALSE, hq, 0), FileRow(bob, TRUE, hq, 1), FileRow(bob, TRUE, hq, 0)>>,
      extra |-> FALSE]}

(* Requests run beside the jobs, or beside the imports: all three together  *)
(* share the users rows only, and multiply.                                 *)
VARIABLE cast

(* A feed's records: a whole one, one with an absent field, one with a list *)
(* where a value is expected.                                               *)
CONSTANTS whole, part, nested, key, name

MCShape ==
    whole :> (key :> "scalar" @@ name :> "scalar")
    @@ part :> (key :> "scalar" @@ name :> "absent")
    @@ nested :> (key :> "scalar" @@ name :> "subtree")

MCFirstFeeds == {<<>>, <<whole>>, <<part, whole>>, <<nested, whole, part>>}

MCSettings ==
    {[kind |-> k, mapping |-> {<<key, "c1">>, <<name, c>>}, paging |-> p, enabled |-> e] :
        k \in {"csv_url", "rest_json"}, c \in {"c1", "c2"}, e \in BOOLEAN,
        p \in {[mode |-> "none"], [mode |-> "page", maxPages |-> 3],
               [mode |-> "page", maxPages |-> 9], [mode |-> "cursor", maxPages |-> 2]}}

MCInit ==
    /\ PeopleInit /\ LifecycleInit /\ ImportsInit /\ IntakeInit
    /\ cast \in {"jobs", "imports", "feed"}
    /\ \A r \in Rules : rule[r] = rule[mark]
    /\ cast = "jobs" => person[bob] # Absent
    /\ cast # "jobs" => ~rule[mark].made
    /\ cast = "feed" => person[bob] = Absent
    /\ cast # "feed" =>
          /\ hr = <<>>
          /\ src = CHOOSE s \in CreatedSources : s.kind = "csv_url"

MCNext ==
    /\ UNCHANGED cast
    /\ \/ /\ cast \in {"jobs", "imports"} /\ PeopleNext
          /\ UNCHANGED <<lvars, ivars, hvars>>
       \/ cast = "jobs" /\ LifecycleNext /\ UNCHANGED <<ivars, hvars>>
       \/ cast = "imports" /\ ImportsNext /\ UNCHANGED <<lvars, hvars>>
       \/ cast = "feed" /\ IntakeNext /\ UNCHANGED <<pvars, lvars, ivars>>
    /\ cast = "jobs" => txn'[s1].op \notin {"transfer", "activate"}   \* the bulk job activates

MCSpec ==
    /\ MCInit
    /\ [][MCNext]_<<pvars, lvars, ivars, hvars, cast>>
    /\ LifecycleFairness   \* no behaviour of another cast is fair
=============================================================================
