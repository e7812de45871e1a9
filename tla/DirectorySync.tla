---------------------------- MODULE DirectorySync ----------------------------
(***************************************************************************)
(* SyncWorker.reconcileUser and everything that fans into it, on top of    *)
(* the queue of module Outbox: the keycloak target of the master           *)
(* organization (never deferred), flat groups, and the users whose         *)
(* accounts the target keeps.  A user, a group and a membership event are  *)
(* rows of different streams, so claimNext hands them to several workers   *)
(* at once; a per-user advisory lock is what serialises them.              *)
(***************************************************************************)
EXTENDS Outbox

CONSTANTS
    Users,
    NoUser,
    Groups,
    NoGroup,
    Kinds,        \* the changes producers make, a subset of AllKinds
    MaxCrashes    \* bound: worker crashes

AllKinds == {"edit", "deactivate", "rename", "join", "leave"}

ASSUME DirectoryAssumption ==
    /\ Streams = {"user"} \X Users \cup {"group", "membership"} \X Groups
    /\ NoUser \notin Users
    /\ NoGroup \notin Groups
    /\ Kinds \subseteq AllKinds
    /\ MaxCrashes \in Nat

VARIABLES
    change,    \* the change each row's transaction makes
    profile,   \* committed edits of each user
    active,    \* users whose status is active
    name,      \* each group's name, counted from 1
    members,   \* each group's committed members
    remote,    \* each user's account on the target
    pc,        \* where each worker's applyEvent is
    todo,      \* users it has still to reconcile
    cur,       \* the user it is reconciling
    desired,   \* the DesiredUser it has built
    locks,     \* per-user advisory locks its transaction holds
    crashes    \* worker crashes so far

store == <<change, profile, active, name, members>>
local == <<pc, todo, cur, desired, locks>>
dvars == <<vars, store, remote, local, crashes>>

(* What the target keeps of a user: a profile version, the enabled flag    *)
(* and the name each of the user's groups goes by (0 outside the group).   *)
Account == [profile : 0..MaxEvents, enabled : BOOLEAN,
            groups : [Groups -> 0..MaxEvents + 1]]

NoAccount == [profile |-> 0, enabled |-> FALSE, groups |-> [g \in Groups |-> 0]]

Change == [kind : AllKinds \cup {"none"}, user : Users \cup {NoUser},
           group : Groups \cup {NoGroup}]

NoChange == [kind |-> "none", user |-> NoUser, group |-> NoGroup]

PC == {"idle", "claimed", "loop", "waiting", "locked", "row", "built",
       "updated", "enabled", "thrown"}

DirectoryTypeOK ==
    /\ TypeOK
    /\ change \in [Ids -> Change]
    /\ profile \in [Users -> 0..MaxEvents]
    /\ active \subseteq Users
    /\ name \in [Groups -> 1..MaxEvents + 1]
    /\ members \in [Groups -> SUBSET Users]
    /\ remote \in [Users -> Account]
    /\ pc \in [Workers -> PC]
    /\ todo \in [Workers -> SUBSET Users]
    /\ cur \in [Workers -> Users \cup {NoUser}]
    /\ desired \in [Workers -> Account]
    /\ locks \in [Workers -> SUBSET Users]
    /\ crashes \in 0..MaxCrashes

-----------------------------------------------------------------------------
(* Producers: a change and the row that announces it, in one transaction.  *)

StreamOf(c) ==
    CASE c.kind \in {"edit", "deactivate"} -> <<"user", c.user>>
      [] c.kind = "rename" -> <<"group", c.group>>
      [] OTHER -> <<"membership", c.group>>

Changes ==
    {c \in Change :
        /\ c.kind \in Kinds
        /\ c.user = NoUser <=> c.kind = "rename"
        /\ c.group = NoGroup <=> c.kind \in {"edit", "deactivate"}}

(* The row the change updates is locked until its transaction ends.        *)
RowBusy(c) ==
    \E p \in Producers : \E i \in txn[p] :
        StreamOf(change[i]) = StreamOf(c) /\ change[i].user = c.user

Applicable(c) ==
    CASE c.kind = "deactivate" -> c.user \in active
      [] c.kind = "join" -> c.user \notin members[c.group]
      [] c.kind = "leave" -> c.user \in members[c.group]
      [] OTHER -> TRUE

Write(p, c) ==
    /\ ~RowBusy(c) /\ Applicable(c)
    /\ Insert(p, StreamOf(c))
    /\ change' = [change EXCEPT ![lastId'] = c]
    /\ UNCHANGED <<profile, active, name, members, remote, local, crashes>>

Made(p, kind) == {c \in {change[i] : i \in txn[p]} : c.kind = kind}

UsersOf(C) == {c.user : c \in C}

In(g, C) == {c \in C : c.group = g}

CommitChanges(p) ==
    /\ Commit(p)
    /\ LET left == UsersOf(Made(p, "deactivate"))
           touched == left \cup UsersOf(Made(p, "edit"))
       IN /\ profile' = [u \in Users |-> profile[u] + IF u \in touched THEN 1 ELSE 0]
          /\ active' = active \ left
    /\ name' = [g \in Groups |-> name[g] + Cardinality(In(g, Made(p, "rename")))]
    /\ members' = [g \in Groups |->
          (members[g] \cup UsersOf(In(g, Made(p, "join"))))
              \ UsersOf(In(g, Made(p, "leave")))]
    /\ UNCHANGED <<change, remote, local, crashes>>

RollbackChanges(p) == Rollback(p) /\ UNCHANGED <<store, remote, local, crashes>>

-----------------------------------------------------------------------------
(* Workers.                                                                *)

ClaimEvent(w) ==
    /\ Claim(w)
    /\ pc' = [pc EXCEPT ![w] = "claimed"]
    /\ UNCHANGED <<store, remote, todo, cur, desired, locks, crashes>>

(* Mutant of Affected: a group event asks for nobody but its payload's user. *)
AffectedByPayload(c) == {c.user} \ {NoUser}

(* applyEvent, reconcileGroup and reconcileMembership: who is affected.    *)
Affected(c) ==
    IF c.kind = "rename" THEN members[c.group] ELSE {c.user}

FanOut(w) ==
    /\ pc[w] = "claimed"
    /\ pc' = [pc EXCEPT ![w] = "loop"]
    /\ todo' = [todo EXCEPT ![w] = Affected(change[claim[w]])]
    /\ UNCHANGED <<vars, store, remote, cur, desired, locks, crashes>>

(* reconcileUser for the next affected user; the order is the database's.  *)
NextUser(w) ==
    /\ pc[w] = "loop"
    /\ \E u \in todo[w] :
          /\ cur' = [cur EXCEPT ![w] = u]
          /\ todo' = [todo EXCEPT ![w] = @ \ {u}]
    /\ pc' = [pc EXCEPT ![w] = "waiting"]
    /\ UNCHANGED <<vars, store, remote, desired, locks, crashes>>

Holds(v, u) == u \in locks[v]

(* Mutant of LockUser: reconcileUser without its advisory lock.            *)
ReconcileUnlocked(w) ==
    /\ pc[w] = "waiting"
    /\ pc' = [pc EXCEPT ![w] = "locked"]
    /\ UNCHANGED <<vars, store, remote, todo, cur, desired, locks, crashes>>

(* pg_advisory_xact_lock: waits while another transaction holds it.        *)
LockUser(w) ==
    /\ pc[w] = "waiting"
    /\ \A v \in Workers \ {w} : ~Holds(v, cur[w])
    /\ locks' = [locks EXCEPT ![w] = @ \cup {cur[w]}]
    /\ pc' = [pc EXCEPT ![w] = "locked"]
    /\ UNCHANGED <<vars, store, remote, todo, cur, desired, crashes>>

(* buildDesiredUser under READ COMMITTED: the users row, then, in a later  *)
(* statement, effectiveGroupNames.                                         *)
GroupNames(u) == [g \in Groups |-> IF u \in members[g] THEN name[g] ELSE 0]

ReadUser(w) ==
    /\ pc[w] = "locked"
    /\ desired' = [desired EXCEPT ![w] =
          [NoAccount EXCEPT !.profile = profile[cur[w]], !.enabled = cur[w] \in active]]
    /\ pc' = [pc EXCEPT ![w] = "row"]
    /\ UNCHANGED <<vars, store, remote, todo, cur, locks, crashes>>

ReadGroups(w) ==
    /\ pc[w] = "row"
    /\ desired' = [desired EXCEPT ![w].groups = GroupNames(cur[w])]
    /\ pc' = [pc EXCEPT ![w] = "built"]
    /\ UNCHANGED <<vars, store, remote, todo, cur, locks, crashes>>

(* KeycloakConnector.apply: updateUser, setEnabled, setUserGroups are      *)
(* separate requests.                                                      *)
Request(w, from, to) ==
    /\ pc[w] = from
    /\ pc' = [pc EXCEPT ![w] = to]
    /\ UNCHANGED <<vars, store, todo, desired, locks, crashes>>

UpdateUser(w) ==
    /\ Request(w, "built", "updated")
    /\ remote' = [remote EXCEPT ![cur[w]].profile = desired[w].profile]
    /\ UNCHANGED cur

SetEnabled(w) ==
    /\ Request(w, "updated", "enabled")
    /\ remote' = [remote EXCEPT ![cur[w]].enabled = desired[w].enabled]
    /\ UNCHANGED cur

SetUserGroups(w) ==
    /\ Request(w, "enabled", "loop")
    /\ remote' = [remote EXCEPT ![cur[w]].groups = desired[w].groups]
    /\ cur' = [cur EXCEPT ![w] = NoUser]

Reset(w) ==
    /\ pc' = [pc EXCEPT ![w] = "idle"]
    /\ todo' = [todo EXCEPT ![w] = {}]
    /\ cur' = [cur EXCEPT ![w] = NoUser]
    /\ desired' = [desired EXCEPT ![w] = NoAccount]
    /\ locks' = [locks EXCEPT ![w] = {}]
    /\ UNCHANGED <<store, remote>>

(* markDone and commit: the locks go with the transaction.                 *)
Finish(w) ==
    /\ pc[w] = "loop" /\ todo[w] = {}
    /\ Succeed(w)
    /\ Reset(w)
    /\ UNCHANGED crashes

(* Any call of applyEvent may throw, before or after the target acted on   *)
(* it.  ROLLBACK TO SAVEPOINT frees the locks taken inside the savepoint.  *)
Throw(w) ==
    /\ pc' = [pc EXCEPT ![w] = "thrown"]
    /\ locks' = [locks EXCEPT ![w] = {}]
    /\ UNCHANGED <<vars, store, remote, todo, cur, desired, crashes>>

CallFails(w) == pc[w] \notin {"idle", "waiting", "thrown"} /\ Throw(w)

(* Postgres aborts a transaction of a cycle of waiting transactions.       *)
DeadlockVictim(w) ==
    /\ \E S \in SUBSET Workers :
          /\ w \in S
          /\ \A v \in S : pc[v] = "waiting" /\ \E x \in S \ {v} : Holds(x, cur[v])
    /\ Throw(w)

RecordFailure(w) ==
    /\ pc[w] = "thrown"
    /\ \E permanent \in BOOLEAN : Fail(w, permanent)
    /\ Reset(w)
    /\ UNCHANGED crashes

WorkerCrash(w) ==
    /\ crashes < MaxCrashes
    /\ crashes' = crashes + 1
    /\ Crash(w)
    /\ Reset(w)

-----------------------------------------------------------------------------
DirectoryInit ==
    /\ Init
    /\ change = [i \in Ids |-> NoChange]
    /\ profile = [u \in Users |-> 0]
    /\ active = Users
    /\ name = [g \in Groups |-> 1]
    /\ members \in [Groups -> SUBSET Users]
    /\ remote = [u \in Users |-> [profile |-> 0, enabled |-> TRUE, groups |-> GroupNames(u)]]
    /\ pc = [w \in Workers |-> "idle"]
    /\ todo = [w \in Workers |-> {}]
    /\ cur = [w \in Workers |-> NoUser]
    /\ desired = [w \in Workers |-> NoAccount]
    /\ locks = [w \in Workers |-> {}]
    /\ crashes = 0

Progress(w) ==
    \/ FanOut(w) \/ NextUser(w) \/ LockUser(w) \/ ReadUser(w) \/ ReadGroups(w)
    \/ UpdateUser(w) \/ SetEnabled(w) \/ SetUserGroups(w)
    \/ Finish(w) \/ RecordFailure(w) \/ DeadlockVictim(w)

DirectoryWork(w) == ClaimEvent(w) \/ Progress(w) \/ CallFails(w) \/ WorkerCrash(w)

(* The rest of the queue: time and operators.                              *)
QueueStep ==
    /\ \/ \E i \in Ids : BecomeDue(i)
       \/ \E o \in Operators : Operate(o)
    /\ UNCHANGED <<store, remote, local, crashes>>

DirectoryNext ==
    \/ \E p \in Producers : CommitChanges(p) \/ RollbackChanges(p)
    \/ \E p \in Producers, c \in Changes : Write(p, c)
    \/ \E w \in Workers : DirectoryWork(w)
    \/ QueueStep

DirectorySpec == DirectoryInit /\ [][DirectoryNext]_dvars

(* Fairness: the poll loop claims, a worker's transaction goes on, Postgres *)
(* resolves deadlocks, and next_attempt_at arrives.                        *)
DirectoryFairness ==
    /\ WF_dvars(\E w \in Workers : ClaimEvent(w))
    /\ \A w \in Workers : WF_dvars(Progress(w))
    /\ WF_dvars(QueueStep)

DirectoryFairSpec == DirectorySpec /\ DirectoryFairness

-----------------------------------------------------------------------------
(* What the database says the account should be.                           *)
AccountOf(u) ==
    [profile |-> profile[u], enabled |-> u \in active, groups |-> GroupNames(u)]

(* Row i, if it is ever applied, re-asserts u.                             *)
Concerns(i, u) ==
    \/ change[i].user = u
    \/ change[i].kind = "rename" /\ u \in members[change[i].group]

Owed(u) == \E i \in Ids : status[i] \in {"pending", "failed"} /\ Concerns(i, u)

(* The console's promise that drift is always visible: whenever an account *)
(* differs from the database, some event about that user is still queued   *)
(* or is a dead letter.  Every interleaving of user, group and membership  *)
(* events, of partial applies, crashes, retries and deadlock victims must  *)
(* keep a stale write from being the last one (finding H2 in the comment   *)
(* on reconcileUser).                                                      *)
NeverSilentlyStale == \A u \in Users : remote[u] # AccountOf(u) => Owed(u)

(* The per-user lock covers read and write: a worker never overwrites a    *)
(* newer profile with an older one.                                        *)
ProfileNeverRegresses ==
    [][\A u \in Users : remote'[u].profile >= remote[u].profile]_dvars

(* Reconcile-to-desired-state converges: an account that differs from the  *)
(* database becomes equal to it, or a dead letter says why not, through    *)
(* deadlocks between fan-outs, failures, crashes and retries.              *)
Converges ==
    \A u \in Users : remote[u] # AccountOf(u) ~>
        \/ remote[u] = AccountOf(u)
        \/ \E i \in Ids : status[i] = "failed" /\ Concerns(i, u)

-----------------------------------------------------------------------------
(* SyncStateRepository.resolveForUsers: the badge the console shows beside *)
(* a person, computed from the latest event of each aggregate that can     *)
(* reach the person.                                                       *)

Visible == {i \in Ids : status[i] \in {"pending", "done", "failed"}}

(* DISTINCT ON (aggregate_id, target) ... ORDER BY id DESC.                *)
Newest(S) == {i \in S : \A j \in S : j <= i}

LatestUserEvent(u) == Newest({i \in Visible : stream[i] = <<"user", u>>})

LatestGroupEvent(g) == Newest({i \in Visible : stream[i] = <<"group", g>>})

(* Mutant of LatestMembershipEvent: only events about current members      *)
(* count (finding H3 in the comment on SyncStateRepository).               *)
LatestEventOfMembers(g, page) ==
    Newest({i \in Visible :
               stream[i] = <<"membership", g>> /\ change[i].user \in page \cap members[g]})

LatestMembershipEvent(g, page) ==
    Newest({i \in Visible : stream[i] = <<"membership", g>> /\ change[i].user \in page})

(* The events that weigh on u when the people of page are resolved.        *)
Weighing(u, page) ==
    LatestUserEvent(u)
        \cup (UNION {LatestGroupEvent(g) : g \in {h \in Groups : u \in members[h]}})
        \cup {i \in UNION {LatestMembershipEvent(g, page) : g \in Groups} : change[i].user = u}

(* Every person of the model has an external identity that was synced      *)
(* once, so an aggregate without an event is settled.                      *)
SyncState(u, page) ==
    LET states == {status[i] : i \in Weighing(u, page)}
    IN IF "failed" \in states THEN "failed"
       ELSE IF "pending" \in states THEN "pending"
       ELSE "synced"

(* docs/product-brief.md: the console may never show a person as in sync   *)
(* while the person's account is not what the database says.  Here on the  *)
(* person's own page, which resolves that one user.                        *)
PersonBadgeIsHonest ==
    \A u \in Users : SyncState(u, {u}) = "synced" => remote[u] = AccountOf(u)

(* The same of a page of the people list, which resolves everybody on it   *)
(* in one query.                                                           *)
ListBadgeIsHonest ==
    \A u \in Users : SyncState(u, Users) = "synced" => remote[u] = AccountOf(u)
=============================================================================
