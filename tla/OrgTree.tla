------------------------------- MODULE OrgTree -------------------------------
(***************************************************************************)
(* The org-unit tree and the role assignments scoped to it.  A unit keeps  *)
(* a materialised path, from which every scope check is answered; requests *)
(* create, rename and delete units, and grant and revoke roles, each in a  *)
(* READ COMMITTED transaction taken a statement at a time.  A unit's path  *)
(* is built from reads that nothing locks.                                 *)
(***************************************************************************)
EXTENDS Integers, Sequences, SequencesExt, FiniteSets

CONSTANTS
    Units,        \* ids of org units
    RootOf,       \* each organisation's root unit, with the label it starts with
    FirstTrees,   \* bound: the rows of other units there may be at first
    Labels,       \* what toLabel makes of names
    People,
    FirstGrants,  \* the assignments the system starts with
    GrantRoles,   \* bound: the roles that requests grant
    Sessions,     \* API requests, one open transaction each
    Nobody,
    Everywhere,   \* the NULL scope
    MaxWrites     \* bound: requests sent to the API

Roots == DOMAIN RootOf

Grant == [user : People, role : GrantRoles, scope : Units \cup {Everywhere}]

Absent == [exists |-> FALSE, parent |-> Nobody, path |-> <<>>]

UnitRow == [exists : BOOLEAN, parent : Units \cup {Nobody}, path : Seq(Labels)]

(* The roots' rows and the others of a tree to start with.                 *)
FirstUnits(rows) ==
    [u \in Units |->
        CASE u \in Roots -> [exists |-> TRUE, parent |-> Nobody, path |-> <<RootOf[u]>>]
          [] u \notin Roots /\ u \in DOMAIN rows -> rows[u]
          [] OTHER -> Absent]

(* A tree as createChild leaves it: every parent is there, every path is   *)
(* the parent's and a label, and no two units share one.                   *)
Orderly(tree) ==
    LET there == {u \in Units : tree[u].exists}
    IN /\ tree \in [Units -> UnitRow]
       /\ \A u \in there :
             /\ tree[u].path # <<>>
             /\ tree[u].parent = Nobody => Len(tree[u].path) = 1
             /\ tree[u].parent # Nobody =>
                   tree[u].parent \in there /\ Front(tree[u].path) = tree[tree[u].parent].path
       /\ \A u, v \in there : tree[u].path = tree[v].path => u = v

ASSUME OrgTreeAssumption ==
    /\ IsFiniteSet(Units) /\ Roots \subseteq Units
    /\ Everywhere \notin Units /\ Nobody \notin Units \cup People
    /\ \A r \in Roots : RootOf[r] \in Labels
    /\ \A rows \in FirstTrees : Orderly(FirstUnits(rows))
    /\ FirstGrants \subseteq Grant
    /\ \A g \in FirstGrants : g.scope \in Roots \cup {Everywhere}
    /\ MaxWrites \in Nat

VARIABLES
    unit,      \* the org_units rows
    home,      \* users.org_unit_id
    grants,    \* the role_assignments rows
    txn,       \* each session's request
    torn,      \* history: units written from a read that another write overtook
    writes     \* requests sent to the API so far

tvars == <<unit, home, grants, txn, torn, writes>>

Idle ==
    [step |-> "idle", act |-> "none", on |-> Nobody, label |-> Nobody, grant |-> Nobody,
     holds |-> {}, reach |-> {}, read |-> <<>>, found |-> {}, moved |-> FALSE,
     overtaken |-> FALSE]

Acts == {"create", "rename", "delete", "assign", "revoke"}

Steps == {"idle", "resolved", "allowed", "read", "found", "moved", "counted"}

OrgTreeTypeOK ==
    /\ unit \in [Units -> UnitRow]
    /\ home \in [People -> Units]
    /\ grants \subseteq Grant
    /\ \A s \in Sessions : txn[s].step \in Steps /\ txn[s].act \in Acts \cup {"none"}
    /\ torn \subseteq Units
    /\ writes \in 0..MaxWrites

-----------------------------------------------------------------------------
Existing == {u \in Units : unit[u].exists}

Label(u) == Last(unit[u].path)

(* path <@ scope: the unit is the scope or below it, by their paths.       *)
IsWithinScope(scope, path) == IsPrefix(scope, path)

(* The units at or below u, by parents: what a scope is meant to be.       *)
Subtree(u) ==
    LET Below[n \in 0..Cardinality(Units)] ==
            IF n = 0 THEN {u}
            ELSE Below[n - 1] \cup {v \in Existing : unit[v].parent \in Below[n - 1]}
    IN Below[Cardinality(Units)]

(* findSubtree.                                                            *)
FindSubtree(u) == {v \in Existing : IsWithinScope(unit[u].path, unit[v].path)}

(* ROLE_PERMISSIONS, for the actions of these requests.                    *)
RolePermissions(role) ==
    IF role = "super_admin"
    THEN {"org_unit:create", "org_unit:update", "org_unit:delete", "role:assign"}
    ELSE {}

Needs(act) ==
    CASE act = "create" -> "org_unit:create"
      [] act = "rename" -> "org_unit:update"
      [] act = "delete" -> "org_unit:delete"
      [] act \in {"assign", "revoke"} -> "role:assign"

(* resolveActor: the assignments of the moment, each with its unit's path. *)
Holdings(p) ==
    {[role |-> g.role, scope |-> g.scope,
      path |-> IF g.scope = Everywhere THEN <<>> ELSE unit[g.scope].path] :
        g \in {h \in grants : h.user = p}}

GrantingAssignments(holds, action) == {h \in holds : action \in RolePermissions(h.role)}

CanAnywhere(holds, action) == GrantingAssignments(holds, action) # {}

(* Somewhere in the scopes of these assignments, which are paths by now.   *)
Covered(holds, u) ==
    \/ \E h \in holds : h.scope = Everywhere
    \/ u \in Existing /\ \E h \in holds : IsWithinScope(h.path, unit[u].path)

CanIn(holds, action, u) == Covered(GrantingAssignments(holds, action), u)

(* Mutant of ListFiltered: no scopes to filter by is no filter.             *)
ListTruthy(scopes) == {u \in Existing : scopes = {} \/ \E p \in scopes : IsWithinScope(p, unit[u].path)}

(* scopePathsFor: the paths to filter a list by; no list of paths at all   *)
(* is no filter, an empty one matches nothing.                             *)
Unrestricted(holds, action) ==
    \E h \in GrantingAssignments(holds, action) : h.scope = Everywhere

ScopePathsFor(holds, action) == {h.path : h \in GrantingAssignments(holds, action)}

ListFiltered(scopes) == {u \in Existing : \E p \in scopes : IsWithinScope(p, unit[u].path)}

(* OrgUnitsController.list.                                                *)
ListUnits(holds, action) ==
    IF Unrestricted(holds, action) THEN Existing
    ELSE ListFiltered(ScopePathsFor(holds, action))

(* Mutant of CanAssignRole: any holding covers a global grant.             *)
CanAssignRoleAnywhere(holds, role, scope) ==
    LET holdings == {h \in holds : h.role \in {role, "super_admin"}}
    IN holdings # {} /\ (scope = Everywhere \/ Covered(holdings, scope))

(* assertCanAssignRole: one grants what one holds, where one holds it.     *)
CanAssignRole(holds, role, scope) ==
    LET holdings == {h \in holds : h.role \in {role, "super_admin"}}
    IN IF scope = Everywhere
       THEN \E h \in holdings : h.scope = Everywhere
       ELSE Covered(holdings, scope)

(* History: where the actor may grant a role, by the tree and not by paths. *)
ReachOf(p, role) ==
    UNION {IF g.scope = Everywhere THEN Units \cup {Everywhere} ELSE Subtree(g.scope) :
             g \in {h \in grants : h.user = p /\ h.role \in {role, "super_admin"}}}

-----------------------------------------------------------------------------
(* A write of the tree that commits overtakes whatever is in progress.     *)
Overtake(s, next) ==
    [t \in Sessions |->
        IF t = s THEN next
        ELSE IF txn[t].step = "idle" THEN txn[t]
        ELSE [txn[t] EXCEPT !.overtaken = TRUE]]

At(s, step, acts) == txn[s].step = step /\ txn[s].act \in acts

Go(s, t) ==
    /\ txn' = [txn EXCEPT ![s] = t]
    /\ UNCHANGED <<unit, home, grants, torn, writes>>

(* Rows the open renames have rewritten, and their own until they commit.  *)
Locked(u, s) == \E t \in Sessions \ {s} : txn[t].moved /\ u \in txn[t].found

(* PermissionGuard.canActivate: the actor is resolved, and holds the       *)
(* action anywhere at all.                                                 *)
Request(s, p, act, u, label, grant) ==
    /\ txn[s].step = "idle" /\ writes < MaxWrites
    /\ CanAnywhere(Holdings(p), Needs(act))
    /\ txn' = [txn EXCEPT ![s] =
          [Idle EXCEPT !.step = "resolved", !.act = act, !.on = u, !.label = label,
                       !.grant = grant, !.holds = Holdings(p),
                       !.reach = IF act = "assign" THEN ReachOf(p, grant.role) ELSE {}]]
    /\ writes' = writes + 1
    /\ UNCHANGED <<unit, home, grants, torn>>

(* Whatever is refused, fails, deadlocks or crashes leaves nothing.        *)
Rollback(s) ==
    /\ txn[s].step # "idle"
    /\ Go(s, Idle)

(* assertCanIn on the unit: the parent of a new one, the one to change, or *)
(* the one the person concerned is filed in.                               *)
AssertCanIn(s) ==
    /\ At(s, "resolved", Acts)
    /\ LET u == IF txn[s].act \in {"assign", "revoke"} THEN home[txn[s].grant.user] ELSE txn[s].on
       IN CanIn(txn[s].holds, Needs(txn[s].act), u)
    /\ Go(s, [txn[s] EXCEPT !.step = "allowed"])

-----------------------------------------------------------------------------
(* createChild reads the parent's path.                                    *)
ReadParent(s, parent) ==
    /\ At(s, "allowed", {"create"})
    /\ parent = txn[s].on /\ parent \in Existing
    /\ Go(s, [txn[s] EXCEPT !.step = "read", !.read = unit[parent].path])

(* The insert: its path is what was read, its parent must be there, and    *)
(* the path must be free.                                                  *)
InsertChild(s, u) ==
    /\ At(s, "read", {"create"})
    /\ u \notin Existing
    /\ txn[s].on \in Existing /\ ~Locked(txn[s].on, s)
    /\ LET path == Append(txn[s].read, txn[s].label)
       IN /\ \A v \in Existing : unit[v].path # path
          /\ unit' = [unit EXCEPT ![u] = [exists |-> TRUE, parent |-> txn[s].on, path |-> path]]
    /\ torn' = IF txn[s].overtaken THEN torn \cup {u} ELSE torn \ {u}
    /\ txn' = Overtake(s, Idle)
    /\ UNCHANGED <<home, grants, writes>>

(* rename reads the path it is about to replace.                           *)
ReadOwnPath(s) ==
    /\ At(s, "allowed", {"rename"})
    /\ txn[s].on \in Existing
    /\ Go(s, [txn[s] EXCEPT !.step = "read", !.read = unit[txn[s].on].path])

NewPath(s) == Append(Front(txn[s].read), txn[s].label)

(* The UPDATE of the strict descendants: the rows its snapshot matches ... *)
FindDescendants(s) ==
    /\ At(s, "read", {"rename"})
    /\ Go(s, [txn[s] EXCEPT !.step = "found",
                 !.found = {v \in Existing : IsStrictPrefix(txn[s].read, unit[v].path)}])

(* Mutant of Moved: the prefix is replaced whatever the row's depth.       *)
MovedFlat(s, v) == Append(NewPath(s), Label(v))

(* newPath || subpath(path, nlevel(old)).                                  *)
Moved(s, v) == NewPath(s) \o SubSeq(unit[v].path, Len(txn[s].read) + 1, Len(unit[v].path))

(* ... and, once no other transaction holds one, rewrites those that still *)
(* match.  They stay locked, and unseen, until the rename commits.         *)
MoveDescendants(s) ==
    /\ At(s, "found", {"rename"})
    /\ \A v \in txn[s].found : ~Locked(v, s)
    /\ Go(s, [txn[s] EXCEPT
                 !.step = "moved", !.moved = TRUE,
                 !.found = IF NewPath(s) = txn[s].read THEN {}
                           ELSE {v \in @ \cap Existing :
                                    IsStrictPrefix(txn[s].read, unit[v].path)}])

(* The unit's own row, and the commit.                                     *)
CommitRename(s) ==
    LET u == txn[s].on
        moving == txn[s].found \cup {u}
        path(v) == IF v = u THEN NewPath(s) ELSE Moved(s, v)
    IN /\ At(s, "moved", {"rename"})
       /\ u \in Existing /\ ~Locked(u, s)
       /\ \A v \in moving, w \in Existing \ moving : path(v) # unit[w].path
       /\ \A v, w \in moving : path(v) = path(w) => v = w
       /\ unit' = [v \in Units |-> IF v \in moving THEN [unit[v] EXCEPT !.path = path(v)]
                                   ELSE unit[v]]
       /\ torn' = torn \cup (IF txn[s].overtaken THEN moving ELSE {})
       /\ txn' = Overtake(s, Idle)
       /\ UNCHANGED <<home, grants, writes>>

(* deleteIfUnused counts what depends on the unit; a root never goes.      *)
CountBlockers(s) ==
    LET u == txn[s].on
    IN /\ At(s, "allowed", {"delete"})
       /\ u \in Existing /\ unit[u].parent # Nobody
       /\ \A v \in Existing : unit[v].parent # u
       /\ \A p \in People : home[p] # u
       /\ \A g \in grants : g.scope # u
       /\ Go(s, [txn[s] EXCEPT !.step = "counted"])

(* The DELETE: children and people restrict it, scoped grants go with it.  *)
DeleteUnit(s) ==
    LET u == txn[s].on
    IN /\ At(s, "counted", {"delete"})
       /\ u \in Existing /\ ~Locked(u, s)
       /\ \A v \in Existing : unit[v].parent # u
       /\ \A p \in People : home[p] # u
       /\ unit' = [unit EXCEPT ![u] = Absent]
       /\ grants' = {g \in grants : g.scope # u}
       /\ torn' = torn \ {u}
       /\ txn' = Overtake(s, Idle)
       /\ UNCHANGED <<home, writes>>

-----------------------------------------------------------------------------
(* assertCanAssignRole, for a grant to make or to take away; the check of  *)
(* rank beside it refuses nobody who holds role:assign.                    *)
CheckGrant(s) ==
    /\ At(s, "allowed", {"assign", "revoke"})
    /\ txn[s].act = "revoke" => txn[s].grant \in grants
    /\ CanAssignRole(txn[s].holds, txn[s].grant.role, txn[s].grant.scope)
    /\ Go(s, [txn[s] EXCEPT !.step = "counted"])

(* RoleAssignmentsRepository.assign: the scope must exist, the assignment  *)
(* must be new.                                                            *)
Assign(s) ==
    /\ At(s, "counted", {"assign"})
    /\ txn[s].grant.scope \in Existing \cup {Everywhere}
    /\ txn[s].grant \notin grants
    /\ grants' = grants \cup {txn[s].grant}
    /\ txn' = [txn EXCEPT ![s] = Idle]
    /\ UNCHANGED <<unit, home, torn, writes>>

Revoke(s) ==
    /\ At(s, "counted", {"revoke"})
    /\ grants' = grants \ {txn[s].grant}
    /\ txn' = [txn EXCEPT ![s] = Idle]
    /\ UNCHANGED <<unit, home, torn, writes>>

(* A person is transferred to another unit of the same organisation.       *)
Organisation(u) == {r \in Roots : u \in Subtree(r)}

Transfer(p, u) ==
    /\ writes < MaxWrites /\ writes' = writes + 1
    /\ u \in Existing \ {home[p]} /\ Organisation(u) = Organisation(home[p])
    /\ home' = [home EXCEPT ![p] = u]
    /\ UNCHANGED <<unit, grants, txn, torn>>

-----------------------------------------------------------------------------
OrgTreeInit ==
    /\ \E rows \in FirstTrees : unit = FirstUnits(rows)
    /\ home \in [People -> Roots]
    /\ grants = FirstGrants
    /\ txn = [s \in Sessions |-> Idle]
    /\ torn = {}
    /\ writes = 0

Ask(s, p) ==
    \/ \E u \in Units, l \in Labels :
          \E act \in {"create", "rename"} : Request(s, p, act, u, l, Nobody)
    \/ \E u \in Units : Request(s, p, "delete", u, Nobody, Nobody)
    \/ \E g \in Grant : \E act \in {"assign", "revoke"} : Request(s, p, act, Nobody, Nobody, g)

OrgTreeNext ==
    \/ \E s \in Sessions :
          \/ \E p \in People : Ask(s, p)
          \/ Rollback(s) \/ AssertCanIn(s)
          \/ \E u \in Units : ReadParent(s, u) \/ InsertChild(s, u)
          \/ ReadOwnPath(s) \/ FindDescendants(s) \/ MoveDescendants(s) \/ CommitRename(s)
          \/ CountBlockers(s) \/ DeleteUnit(s)
          \/ CheckGrant(s) \/ Assign(s) \/ Revoke(s)
    \/ \E p \in People, u \in Units : Transfer(p, u)

OrgTreeSpec == OrgTreeInit /\ [][OrgTreeNext]_tvars

-----------------------------------------------------------------------------
(* A unit's path is its parent's path and its own label, through any       *)
(* sequence of creations, renames of whole subtrees and deletions - unless *)
(* the write that gave the unit its path was overtaken by another.         *)
PathsFollowParents ==
    \A u \in Existing \ torn :
        unit[u].parent # Nobody /\ unit[u].parent \notin torn =>
            Front(unit[u].path) = unit[unit[u].parent].path

(* Scope checks compare paths; what an administrator is scoped to is a     *)
(* subtree.  The two agree for every pair of units, across organisations   *)
(* too, as long as no write was overtaken.                                 *)
ScopeIsTheSubtree ==
    torn = {} => \A u \in Existing : FindSubtree(u) = Subtree(u)

(* A list shows a person exactly the units the person may act on one by    *)
(* one, of whatever the person's assignments are just then.                *)
ListsShowWhatIsPermitted ==
    \A p \in People, action \in {"org_unit:update", "role:assign"} :
        ListUnits(Holdings(p), action) = {u \in Existing : CanIn(Holdings(p), action, u)}

(* An administrator hands out a role only where the tree put the           *)
(* administrator when the request arrived, and only to people filed there: *)
(* a scoped holding never makes a grant beyond its subtree or everywhere.  *)
GrantsStayInReach ==
    [][\A s \in Sessions :
          txn[s].act = "assign" /\ ~txn[s].overtaken /\ torn = {} /\
          txn[s].grant \in grants' \ grants /\ txn'[s] # txn[s]
              => txn[s].grant.scope \in txn[s].reach]_tvars

(* org-units.repository.ts, deleteIfUnused: a write that revokes grants    *)
(* implicitly is refused.  No assignment disappears with its unit.         *)
NoGrantVanishes ==
    [][\A g \in grants \ grants' : \E s \in Sessions : At(s, "counted", {"revoke"})
                                                        /\ txn[s].grant = g]_tvars

(* org-units.repository.ts, rename: descendants "move together or the tree *)
(* is inconsistent".  Every path follows its parent's, overtaken or not.   *)
PathsAlwaysFollowParents ==
    \A u \in Existing :
        unit[u].parent # Nobody => Front(unit[u].path) = unit[unit[u].parent].path
=============================================================================
