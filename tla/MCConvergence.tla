---------------------------- MODULE MCConvergence ----------------------------
(***************************************************************************)
(* What comes right in the end: the rows of a role with what it means, the *)
(* people of a new organization in its realm, or an account in its org     *)
(* unit's container.  One of them per behaviour; the others stay where     *)
(* they began.                                                             *)
(***************************************************************************)
EXTENDS Entitlements, Realms, AdTree, TLC

ForEngineers ==
    {[conditions |-> <<[field |-> [column |-> "jobTitle", key |-> "-"], operator |-> "equals",
                        value |-> Text(<<"engineer">>)]>>,
      grants |-> Entitlements]}

(* A company with a department and a team in it, all of one name; one more *)
(* department may be created.                                              *)
CONSTANTS top, dept, team, new, a, c, ann, r1, r2, nobody
MCOus == {top, dept, team, new}
MCParentOf == (dept :> top) @@ (team :> dept) @@ (new :> top)
MCFirstName == (top :> a) @@ (dept :> a) @@ (team :> a) @@ (new :> nobody)
MCFirstUnit == (ann :> team)

VARIABLE cast

(* For the tree: one worker; or two with a unit less to rename and no fault. *)
MCInit ==
    /\ cast \in {"role", "realm", "one worker", "two workers"}
    /\ EntitlementsInit /\ RealmsInit /\ AdTreeInit
    /\ cast # "role" =>
          /\ enabled = {} /\ definition \in [Roles -> {CHOOSE d \in Definitions : TRUE}]
          /\ person.job = "clerk" /\ held \in [Entitlements -> {"none"}]
    /\ cast \in {"role", "realm"} => \A r \in Replicas : known[r] = {}

MCNext ==
    /\ UNCHANGED cast
    /\ \/ cast = "role" /\ EntitlementsNext /\ UNCHANGED <<rvars, avars>>
       \/ cast = "realm" /\ RealmsNext /\ UNCHANGED <<evars, avars>>
       \/ cast = "one worker" /\ AdTreeNext /\ doing'[r2] = Free /\ UNCHANGED <<evars, rvars>>
       \/ /\ cast = "two workers" /\ AdTreeNext /\ UNCHANGED <<evars, rvars>>
          /\ label'[team] = label[team] /\ left'.faults = left.faults /\ left'.changes > 0

(* The fairness of EntitlementsFairSpec and RealmsFairSpec, each while it  *)
(* is its turn; AdTree has nothing to do until its turn.                   *)
Fairness ==
    /\ \A s \in Sessions : WF_evars(cast = "role" /\ Reconcile(s))
    /\ WF_evars(cast = "role" /\ \E s \in Sessions : BeginSweep(s))
    /\ \A p \in Processes : /\ WF_rvars(cast = "realm" /\ DeliversOrg(p))
                            /\ WF_rvars(cast = "realm" /\ DeliversPerson(p))
    /\ AdTreeFairness

MCSpec == MCInit /\ [][MCNext]_<<evars, rvars, avars, cast>> /\ Fairness
=============================================================================
