----------------------------- MODULE MCGroupSync -----------------------------
(***************************************************************************)
(* One story at a time on small instances: GroupSync, or the pages of the  *)
(* administration console.  The other stays where it began.                *)
(***************************************************************************)
EXTENDS GroupSync, Console, TLC

MCStreams == {"user"} \X Users \cup {"group", "membership"} \X Groups

VARIABLE cast

MCInit ==
    /\ cast \in {"groups", "console"}
    /\ GroupSyncInit /\ ConsoleInit
    /\ cast # "groups" => members = [g \in Groups |-> {}]
    /\ cast = "console" => \A s \in Topics \ {Whole} : Present(service[s]) = Rows
    /\ cast # "console" =>
          /\ page = "self" /\ view.topic = Whole
          /\ service = [s \in Topics |-> NoRows]

MCNext ==
    /\ UNCHANGED cast
    /\ \/ cast = "groups" /\ GroupSyncNext /\ UNCHANGED pvars
       \/ cast = "console" /\ ConsoleNext /\ UNCHANGED gvars

MCSpec == MCInit /\ [][MCNext]_<<gvars, pvars, cast>>
=============================================================================
