----------------------------- MODULE MCGovernance -----------------------------
(***************************************************************************)
(* One story at a time: a temporary grant from request to review, the      *)
(* publication of roles, or the migration of an attribute.  The others     *)
(* stay where they began.                                                  *)
(***************************************************************************)
EXTENDS Governance, RolePublication, AttributeMigration, TLC

(* Two roles over a platform key and one nobody has defined yet; ann may   *)
(* come to hold either.                                                    *)
CONSTANTS r1, r2, ann
MCSortedKeys == <<"k1", "k2">>
MCFormulas ==
    {[keys |-> {}, holders |-> {}],
     [keys |-> {"k1", "k2"}, holders |-> {ann}],
     [keys |-> {"k2"}, holders |-> {ann}]}
MCFirstFormula == [r \in RoleIds |-> [keys |-> {}, holders |-> {}]]

(* What a number is written as once it has been one.                       *)
MCShown == "12" :> "12" @@ "12.0" :> "12"

VARIABLE cast

MCInit ==
    /\ cast \in {"grant", "publication", "migration"}
    /\ GovernanceInit /\ PublicationInit /\ MigrationInit
    /\ cast # "grant" => manager = [u \in People |-> Nobody]
    /\ cast # "publication" => conflicts = {}
    /\ cast # "migration" =>
          /\ stored = [u \in Holders |-> NoValue]
          /\ definition = [type |-> "string", sensitive |-> FALSE, default |-> NoValue]

MCNext ==
    /\ UNCHANGED cast
    /\ \/ cast = "grant" /\ GovernanceNext /\ UNCHANGED <<pvars, mvars>>
       \/ cast = "publication" /\ PublicationNext /\ UNCHANGED <<gvars, mvars>>
       \/ cast = "migration" /\ MigrationNext /\ UNCHANGED <<gvars, pvars>>

MCSpec == MCInit /\ [][MCNext]_<<gvars, pvars, mvars, cast>>

(* The publication alone.                                                  *)
MCPublicationSpec == MCInit /\ cast = "publication" /\ [][MCNext]_<<gvars, pvars, mvars, cast>>

Symmetry == Permutations(Sessions) \cup Permutations(Callers)
=============================================================================
