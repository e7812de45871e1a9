------------------------------ MODULE GroupGraph ------------------------------
(***************************************************************************)
(* Groups nested in groups: the membership graph, the requests that change *)
(* it, and what its changes mean at two kinds of target.  A target that    *)
(* keeps groups on the person (keycloak) is told of every person a change  *)
(* may concern; one that keeps members on the group (active_directory) is  *)
(* given each group's own list, a nested group by reference if the target  *)
(* knows it and as its people of the moment if not.  A row of the outbox   *)
(* is applied in one step here: what happens inside is DirectorySync and   *)
(* GroupSync.                                                              *)
(***************************************************************************)
EXTENDS Naturals, FiniteSets

CONSTANTS
    Groups, Users,
    FirstGroups,  \* the groups there are from the start, all of them synced
    Requests,     \* API requests, one open transaction each
    NoOne,
    MaxGroupWrites     \* bound: requests sent to the API

ASSUME GroupGraphAssumption ==
    /\ IsFiniteSet(Groups) /\ FirstGroups \subseteq Groups /\ Groups \cap Users = {}
    /\ MaxGroupWrites \in Nat

VARIABLES
    group,      \* the groups rows
    direct,     \* group_user_members
    nested,     \* group_group_members: <<parent, child>>
    request,        \* each session's request
    rows,       \* open outbox rows of the person-shaped target
    groupRows,  \* groups with an open outbox row for the group-shaped target
    held,       \* the groups each account holds at the first target
    tracked,      \* external_group_identities: groups the second target knows
    listed,     \* the members of each group there: accounts and groups
    flattened,  \* history: groups listed with a child's people in its place
    requests      \* requests sent to the API so far

ggvars == <<group, direct, nested, request, rows, groupRows, held, tracked, listed, flattened, requests>>

NoRequest == [step |-> "idle", op |-> "none", on |-> NoOne, arg |-> NoOne]

Ops == {"create", "update", "addMember", "removeMember", "addChild", "removeChild"}

(* A row names the person or the child group concerned, or just the group. *)
Row == {"user"} \X Users \cup {"child", "group"} \X Groups

GroupGraphTypeOK ==
    /\ group \subseteq Groups
    /\ direct \subseteq group \X Users /\ nested \subseteq group \X group
    /\ \A s \in Requests : request[s].step \in {"idle", "begun", "locked", "checked"}
                           /\ request[s].op \in Ops \cup {"none"}
    /\ rows \subseteq Row /\ groupRows \subseteq group
    /\ held \in [Users -> SUBSET group]
    /\ tracked \subseteq group
    /\ listed \in [Groups -> SUBSET (group \cup Users)]
    /\ requests \in 0..MaxGroupWrites

-----------------------------------------------------------------------------
(* Everything reachable from S along the edges of a finite graph.          *)
Reach(S, edges) ==
    LET Walk[n \in 0..Cardinality(Groups)] ==
            IF n = 0 THEN S
            ELSE Walk[n - 1] \cup {b \in Groups : \E a \in Walk[n - 1] : <<a, b>> \in edges}
    IN Walk[Cardinality(Groups)]

Children(g) == {c \in Groups : <<g, c>> \in nested}

DirectMembers(g) == {u \in Users : <<g, u>> \in direct}

(* listEffectiveUserMembers: down the graph from a group.                  *)
EffectiveMembers(g) == UNION {DirectMembers(h) : h \in Reach({g}, nested)}

(* Mutant of EffectiveGroups: the groups one is in, and no further.         *)
DirectGroups(u) == {g \in Groups : <<g, u>> \in direct}

(* listEffectiveGroupsForUser: up the graph from a person.                 *)
EffectiveGroups(u) ==
    Reach({g \in Groups : <<g, u>> \in direct}, {<<e[2], e[1]>> : e \in nested})

(* Mutant of Reachable: the walk starts from the wrong end of the edge.     *)
ReachableBackwards(parent, child) == child \in Reach(Children(parent), nested)

(* The cycle check of addChildGroup: is the parent below the child?        *)
Reachable(parent, child) == parent \in Reach(Children(child), nested)

-----------------------------------------------------------------------------
Advance(s, t) ==
    /\ request' = [request EXCEPT ![s] = t]
    /\ UNCHANGED <<group, direct, nested, rows, groupRows, held, tracked, listed, flattened, requests>>

(* requireGroup, and the other end of the edge.                            *)
Begin(s, op, g, x) ==
    /\ request[s].step = "idle" /\ requests < MaxGroupWrites
    /\ IF op = "create" THEN g \notin group ELSE g \in group
    /\ op \in {"create", "update"} => x = NoOne
    /\ op \in {"addMember", "removeMember"} => x \in Users
    /\ op = "addChild" => x \in group \ {g}
    /\ op = "removeChild" => x \in Groups
    /\ request' = [request EXCEPT ![s] = [step |-> "begun", op |-> op, on |-> g, arg |-> x]]
    /\ requests' = requests + 1
    /\ UNCHANGED <<group, direct, nested, rows, groupRows, held, tracked, listed, flattened>>

RollbackRequest(s) == request[s].step # "idle" /\ Advance(s, NoRequest)

(* Mutant of LockGraph: the advisory lock is not taken.                     *)
LockNothing(s) ==
    /\ request[s].step = "begun" /\ request[s].op = "addChild"
    /\ Advance(s, [request[s] EXCEPT !.step = "locked"])

(* pg_advisory_xact_lock: held until the request's transaction ends.       *)
LockGraph(s) ==
    /\ request[s].step = "begun" /\ request[s].op = "addChild"
    /\ \A t \in Requests : request[t].step \notin {"locked", "checked"}
    /\ Advance(s, [request[s] EXCEPT !.step = "locked"])

CheckCycle(s) ==
    /\ request[s].step = "locked"
    /\ ~Reachable(request[s].on, request[s].arg)
    /\ Advance(s, [request[s] EXCEPT !.step = "checked"])

(* The commit of a request: its edge or row, and the outbox rows with it.  *)
Commit(s, row) ==
    /\ rows' = rows \cup {row}
    /\ groupRows' = groupRows \cup {request[s].on}
    /\ request' = [request EXCEPT ![s] = NoRequest]
    /\ UNCHANGED <<held, tracked, listed, flattened, requests>>

Begun(s, op) == request[s].step = "begun" /\ request[s].op = op

(* GroupsController.create, update.                                        *)
CreateGroup(s) ==
    /\ Begun(s, "create")
    /\ group' = group \cup {request[s].on}
    /\ request[s].on \notin group
    /\ Commit(s, <<"group", request[s].on>>)
    /\ UNCHANGED <<direct, nested>>

UpdateGroup(s) ==
    /\ Begun(s, "update")
    /\ Commit(s, <<"group", request[s].on>>)
    /\ UNCHANGED <<group, direct, nested>>

(* addMember, removeMember: a repeated one writes its row all the same.    *)
AddMember(s) ==
    /\ Begun(s, "addMember")
    /\ direct' = direct \cup {<<request[s].on, request[s].arg>>}
    /\ Commit(s, <<"user", request[s].arg>>)
    /\ UNCHANGED <<group, nested>>

RemoveMember(s) ==
    /\ Begun(s, "removeMember")
    /\ direct' = direct \ {<<request[s].on, request[s].arg>>}
    /\ Commit(s, <<"user", request[s].arg>>)
    /\ UNCHANGED <<group, nested>>

AddChildGroup(s) ==
    /\ request[s].step = "checked"
    /\ nested' = nested \cup {<<request[s].on, request[s].arg>>}
    /\ Commit(s, <<"child", request[s].arg>>)
    /\ UNCHANGED <<group, direct>>

RemoveChildGroup(s) ==
    /\ Begun(s, "removeChild")
    /\ nested' = nested \ {<<request[s].on, request[s].arg>>}
    /\ Commit(s, <<"child", request[s].arg>>)
    /\ UNCHANGED <<group, direct>>

-----------------------------------------------------------------------------
(* Mutant of Affected: only the child's own people are told.                *)
AffectedDirectly(row) ==
    IF row[1] = "user" THEN {row[2]} ELSE DirectMembers(row[2])

(* reconcileGroup and reconcileMembership: the people a row concerns, as   *)
(* the graph is when it is applied.                                        *)
Affected(row) ==
    IF row[1] = "user" THEN {row[2]} ELSE EffectiveMembers(row[2])

ApplyRow(row) ==
    /\ row \in rows
    /\ rows' = rows \ {row}
    /\ held' = [u \in Users |-> IF u \in Affected(row) THEN EffectiveGroups(u) ELSE held[u]]
    /\ UNCHANGED <<group, direct, nested, request, groupRows, tracked, listed, flattened, requests>>

(* Mutant of DesiredMembers: nested groups are always flattened.            *)
DesiredPeople(g) == EffectiveMembers(g)

(* buildDesiredGroupMemberExternalIds; everybody has an account here.      *)
DesiredMembers(g) ==
    DirectMembers(g)
    \cup (Children(g) \cap tracked)
    \cup UNION {EffectiveMembers(c) : c \in Children(g) \ tracked}

ApplyGroup(g) ==
    /\ g \in groupRows
    /\ groupRows' = groupRows \ {g}
    /\ listed' = [listed EXCEPT ![g] = DesiredMembers(g)]
    /\ tracked' = tracked \cup {g}
    /\ flattened' = IF Children(g) \subseteq tracked THEN flattened \ {g} ELSE flattened \cup {g}
    /\ UNCHANGED <<group, direct, nested, request, rows, held, requests>>

-----------------------------------------------------------------------------
GroupGraphInit ==
    /\ group = FirstGroups
    /\ direct = {} /\ nested = {}
    /\ request = [s \in Requests |-> NoRequest]
    /\ rows = {} /\ groupRows = {}
    /\ held = [u \in Users |-> {}]
    /\ tracked = FirstGroups
    /\ listed = [g \in Groups |-> {}]
    /\ flattened = {}
    /\ requests = 0

GroupGraphNext ==
    \/ \E s \in Requests :
          \/ \E op \in Ops, g \in Groups, x \in Groups \cup Users \cup {NoOne} : Begin(s, op, g, x)
          \/ RollbackRequest(s) \/ LockGraph(s) \/ CheckCycle(s)
          \/ CreateGroup(s) \/ UpdateGroup(s) \/ AddMember(s) \/ RemoveMember(s)
          \/ AddChildGroup(s) \/ RemoveChildGroup(s)
    \/ \E row \in Row : ApplyRow(row)
    \/ \E g \in Groups : ApplyGroup(g)

GroupGraphSpec == GroupGraphInit /\ [][GroupGraphNext]_ggvars

-----------------------------------------------------------------------------
(* No group ever contains itself, through however many edges, whatever     *)
(* requests ran at once.                                                   *)
NoCycles == \A g \in Groups : g \notin Reach(Children(g), nested)

(* A person's groups at the target are the ones the graph gives, or a row  *)
(* that is still to be applied will reach that person: rows name a child   *)
(* and not its people, and the graph between has changed since.            *)
NobodyIsForgotten ==
    \A u \in Users :
        held[u] # EffectiveGroups(u) => \E row \in rows : u \in Affected(row)

(* Who is in the group at the target, through the groups it lists.         *)
TargetMembers(g) ==
    LET edges == {e \in Groups \X Groups : e[2] \in listed[e[1]]}
    IN UNION {listed[h] \cap Users : h \in Reach({g}, edges)}

(* A group's people at the target are its people, through every level of   *)
(* nesting, once no row of a group below it is open - as long as the       *)
(* target knew each child before it was listed.                            *)
NestedListsAreComplete ==
    \A g \in tracked :
        Reach({g}, nested) \cap (groupRows \cup flattened) = {} =>
            TargetMembers(g) = EffectiveMembers(g)

(* The two targets are fed by different code that walks the graph in       *)
(* opposite directions.  When both are up to date they grant the same      *)
(* groups to the same people.                                              *)
TargetsAgree ==
    rows = {} /\ groupRows = {} =>
        \A g \in tracked : Reach({g}, nested) \cap flattened = {} =>
            \A u \in Users : u \in TargetMembers(g) <=> g \in held[u]

(* sync.worker.ts, buildDesiredGroupMemberExternalIds: a flattened child   *)
(* "self-heals into a real nested edge the moment the child itself         *)
(* finishes syncing": with no row open, every list is right.               *)
FlattenedListsSelfHeal ==
    groupRows = {} => \A g \in tracked : TargetMembers(g) = EffectiveMembers(g)
=============================================================================
