------------------------------ MODULE MCTargets ------------------------------
(***************************************************************************)
(* One machine at a time: a directory reached over HTTP, the configuration *)
(* rows, the connector they share, the reconciliation of one target, an    *)
(* application and its Keycloak client, the nightly pass over Keycloak,    *)
(* two calls of one HTTP client, or the mapping of what people hold to a   *)
(* target's attributes.                                                    *)
(* The others stay as they are.                                            *)
(***************************************************************************)
EXTENDS Directories, ConnectorRegistry, TargetReconciliation, SsoApps, Drift,
        HttpCalls, AttributeMappings, TLC

(* A directory of two people and three groups.                             *)
CONSTANTS ann, bob, red, blue, outside, title, phone, v, none

MCNames == {red, blue, outside}
MCEmailOf == [n \in MCNames |-> n]
W(value, on, gs) == [attrs |-> (title :> value), enabled |-> on, groups |-> gs]
MCWants == {W(v, TRUE, {red}), W(none, TRUE, {red, blue}), W(v, FALSE, {})}
MCStart == (ann :> W(v, TRUE, {red})) @@ (bob :> W(none, TRUE, {red, blue}))
MCFirstGroups == <<[name |-> outside, email |-> outside, members |-> {}]>>

MCBudgets == {[edits |-> 1, faults |-> 1, meddling |-> 0],
              [edits |-> 1, faults |-> 0, meddling |-> 1],
              [edits |-> 0, faults |-> 1, meddling |-> 1]}

(* A target's configuration: its host and its port.                        *)
CONSTANTS host, port, other, unset
MCPatches == {(host :> v), (port :> other), (host :> unset)}

MCEverybody == <<"ada", "ben", "cyd">>
MCAllGroups == <<"staff">>
MCStatuses == <<"active", "deactivated">>

(* What befalls an application's deliveries.  A dead letter revived beside *)
(* a client renamed before its link is stored would break ClientsAreKept.  *)
MCHardships == {[faults |-> 2, revivals |-> 1, renames |-> 0, deletions |-> 0],
                [faults |-> 1, revivals |-> 0, renames |-> 1, deletions |-> 0],
                [faults |-> 0, revivals |-> 0, renames |-> 0, deletions |-> 1]}

(* Two people of the realm that is walked, and a tenant's.                 *)
MCRoster == <<"ann", "bob", "eve">>
MCWalkStatuses == <<"active", "deactivated">>
MCFirstRow == [status |-> "active", profile |-> "v", attrs |-> {}, groups |-> {}]
MCFirstStaff == [Usernames -> {NoRow, MCFirstRow}]

VARIABLE cast

MCInit ==
    /\ cast \in {"directory", "rows", "calls", "reconciliation", "application", "drift", "client", "mappings"}
    /\ DirectoriesInit /\ RegistryInit /\ ReconciliationInit /\ SsoInit /\ DriftInit /\ HttpInit /\ MappingsInit
    /\ cast # "client" => client = "mail"
    /\ holds \in [Bearers -> {CustomFields, {}}]
    /\ cast # "mappings" => \A u \in Bearers : holds[u] = {}
    /\ cast # "drift" => \A u \in Usernames : staff[u] = NoRow
    /\ cast # "application" => ssoLeft.deletions = 1
    /\ cast # "directory" => kind = "keycloak" /\ budget.edits = 0
    /\ cast # "reconciliation" =>
          /\ mode = "all_users" /\ entitled = {}
          /\ \A u \in Persons : account[u] = NoAccount
          /\ \A g \in Lists : list[g] = 0
    (* Bound: who has an account at first, and who may have one.           *)
    /\ cast = "reconciliation" => /\ account["ada"].exists
                                  /\ entitled \subseteq {"ada", "ben"}

MCNext ==
    /\ UNCHANGED cast
    /\ \/ cast = "directory" /\ DirectoriesNext /\ UNCHANGED <<cvars, sweepvars, svars, wvars, hvars, avars>>
       \/ cast = "rows" /\ RegistryNext /\ UNCHANGED <<call, dvars, sweepvars, svars, wvars, hvars, avars>>
       \/ /\ cast = "calls" /\ RegistryNext
          /\ UNCHANGED <<config, patching, dvars, sweepvars, svars, wvars, hvars, avars>>
       \/ /\ cast = "reconciliation" /\ ReconciliationNext
          /\ UNCHANGED <<dvars, cvars, svars, wvars, hvars, avars>>
       \/ cast = "application" /\ SsoNext /\ UNCHANGED <<dvars, cvars, sweepvars, wvars, hvars, avars>>
       \/ cast = "drift" /\ DriftNext /\ UNCHANGED <<dvars, cvars, sweepvars, svars, hvars, avars>>
       \/ cast = "client" /\ HttpNext /\ UNCHANGED <<dvars, cvars, sweepvars, svars, wvars, avars>>
       \/ cast = "mappings" /\ MappingsNext /\ UNCHANGED <<dvars, cvars, sweepvars, svars, wvars, hvars>>

MCSpec == MCInit /\ [][MCNext]_<<dvars, cvars, sweepvars, svars, wvars, hvars, avars, cast>>
=============================================================================
