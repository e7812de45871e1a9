------------------------------ MODULE MCPeople ------------------------------
(* People, their accounts, their sign-in and their badges on a small       *)
(* instance: values come from the .cfg file.                               *)
EXTENDS Offboarding, TLC

MCStreams == {"user"} \X Users \cup {"group", "membership"} \X Groups

Symmetry == Permutations(Workers) \cup Permutations(Users) \cup Permutations(Groups)
=============================================================================
