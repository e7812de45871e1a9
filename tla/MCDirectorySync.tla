-------------------------- MODULE MCDirectorySync --------------------------
(* DirectorySync on small instances: values come from the .cfg file.       *)
EXTENDS DirectorySync, TLC

MCStreams == {"user"} \X Users \cup {"group", "membership"} \X Groups

(* Everybody starts in every group, so that two renames fan out over the   *)
(* same people; no other membership has as many lock orders.               *)
MCInit == DirectoryInit /\ members = [g \in Groups |-> Users]

MCFairSpec == MCInit /\ [][DirectoryNext]_dvars /\ DirectoryFairness
=============================================================================
