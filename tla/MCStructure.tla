----------------------------- MODULE MCStructure -----------------------------
(***************************************************************************)
(* One machine at a time: the tree of org units with the grants scoped to  *)
(* it, or the graph of nested groups.  The other stays as it is.           *)
(***************************************************************************)
EXTENDS OrgTree, GroupGraph, TLC

(* Two organisations, a platform administrator and one of the first        *)
(* organisation only.                                                      *)
CONSTANTS r1, r2, ann, bob
MCRootOf == r1 :> "a" @@ r2 :> "b"
(* No other unit, or a chain of two below the first organisation's.        *)
CONSTANTS u1, u2
MCFirstTrees ==
    {[u \in {} |-> Absent],
     u1 :> [exists |-> TRUE, parent |-> r1, path |-> <<"a", "b">>]
     @@ u2 :> [exists |-> TRUE, parent |-> u1, path |-> <<"a", "b", "c">>]}
MCFirstGrants ==
    {[user |-> ann, role |-> "super_admin", scope |-> Everywhere],
     [user |-> bob, role |-> "super_admin", scope |-> r1]}

VARIABLE cast

MCInit ==
    /\ cast \in {"tree", "graph"}
    /\ OrgTreeInit /\ home = ann :> r2 @@ bob :> r1
    /\ GroupGraphInit
    /\ cast = "graph" => u1 \notin Existing

MCNext ==
    /\ UNCHANGED cast
    /\ \/ cast = "tree" /\ OrgTreeNext /\ UNCHANGED ggvars
       \/ cast = "graph" /\ GroupGraphNext /\ UNCHANGED tvars

MCSpec == MCInit /\ [][MCNext]_<<tvars, ggvars, cast>>

Symmetry ==
    Permutations(FirstGroups) \cup Permutations(Requests)
=============================================================================
