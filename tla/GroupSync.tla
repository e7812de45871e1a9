----------------------------- MODULE GroupSync -----------------------------
(***************************************************************************)
(* SyncWorker.reconcileAdStyleGroup: groups of a target that keeps the     *)
(* member list on the group (active_directory), on top of module Outbox.   *)
(* A member is listed by the external id its own account got when its user *)
(* event was applied.  Unlike reconcileUser nothing here takes a lock.     *)
(***************************************************************************)
EXTENDS Outbox

CONSTANTS
    Users,
    Groups,
    Provisioned,  \* users whose account exists from the start
    MaxCrashes    \* bound: worker crashes

ASSUME GroupSyncAssumption ==
    /\ Streams = {"user"} \X Users \cup {"group", "membership"} \X Groups
    /\ Provisioned \subseteq Users
    /\ MaxCrashes \in Nat

VARIABLES
    members,      \* group_user_members, committed
    edge,         \* the user a membership row adds or removes
    correlated,   \* users with a committed external_identities row
    directory,    \* the member list of each group on the target
    pc,           \* where each worker's applyEvent is
    desired,      \* the DesiredGroup's members it has read
    crashes       \* worker crashes so far

gvars == <<vars, members, edge, correlated, directory, pc, desired, crashes>>

GroupTypeOK ==
    /\ TypeOK
    /\ members \in [Groups -> SUBSET Users]
    /\ edge \in [Ids -> SUBSET Users]
    /\ correlated \subseteq Users
    /\ directory \in [Groups -> SUBSET Users]
    /\ pc \in [Workers -> {"idle", "claimed", "built", "applied", "thrown"}]
    /\ desired \in [Workers -> SUBSET Users]
    /\ crashes \in 0..MaxCrashes

-----------------------------------------------------------------------------
EdgeBusy(s, u) == \E p \in Producers : \E i \in txn[p] : stream[i] = s /\ u \in edge[i]

(* The users row is there for p to refer to: its event came first.         *)
Exists(p, u) ==
    \/ u \in Provisioned
    \/ \E i \in Ids : /\ stream[i] = <<"user", u>>
                      /\ status[i] # "void"
                      /\ status[i] = "writing" => i \in txn[p]

(* A user is created or edited, a group is renamed, or one member comes or *)
(* goes.                                                                   *)
Write(p, s, E) ==
    /\ IF s[1] = "membership" THEN \E u \in Users : E = {u} ELSE E = {}
    /\ \A u \in E : ~EdgeBusy(s, u) /\ Exists(p, u)
    /\ Insert(p, s)
    /\ edge' = [edge EXCEPT ![lastId'] = E]
    /\ UNCHANGED <<members, correlated, directory, pc, desired, crashes>>

Edges(p, g) == UNION {edge[i] : i \in {j \in txn[p] : stream[j][2] = g}}

(* Committing toggles the edges: a member leaves, a non-member joins.      *)
CommitWrite(p) ==
    /\ Commit(p)
    /\ members' = [g \in Groups |->
          (members[g] \cup Edges(p, g)) \ (members[g] \cap Edges(p, g))]
    /\ UNCHANGED <<edge, correlated, directory, pc, desired, crashes>>

RollbackWrite(p) ==
    /\ Rollback(p)
    /\ UNCHANGED <<members, edge, correlated, directory, pc, desired, crashes>>

-----------------------------------------------------------------------------
Row(w) == stream[claim[w]]

ClaimEvent(w) ==
    /\ Claim(w)
    /\ pc' = [pc EXCEPT ![w] = "claimed"]
    /\ UNCHANGED <<members, edge, correlated, directory, desired, crashes>>

(* Mutant of BuildDesiredGroup: members without an account are listed too. *)
BuildUnfiltered(w) ==
    /\ pc[w] = "claimed" /\ Row(w)[1] # "user"
    /\ desired' = [desired EXCEPT ![w] = members[Row(w)[2]]]
    /\ pc' = [pc EXCEPT ![w] = "built"]
    /\ UNCHANGED <<vars, members, edge, correlated, directory, crashes>>

(* Mutant of BuildDesiredGroup: a membership event applies its own payload *)
(* as a delta instead of reading the whole list.                           *)
BuildDelta(w) ==
    /\ pc[w] = "claimed" /\ Row(w)[1] # "user"
    /\ desired' = [desired EXCEPT ![w] = directory[Row(w)[2]] \cup edge[claim[w]]]
    /\ pc' = [pc EXCEPT ![w] = "built"]
    /\ UNCHANGED <<vars, members, edge, correlated, directory, crashes>>

(* buildDesiredGroupMemberExternalIds: a member not correlated yet is      *)
(* passed over.                                                            *)
BuildDesiredGroup(w) ==
    /\ pc[w] = "claimed" /\ Row(w)[1] # "user"
    /\ desired' = [desired EXCEPT ![w] = members[Row(w)[2]] \cap correlated]
    /\ pc' = [pc EXCEPT ![w] = "built"]
    /\ UNCHANGED <<vars, members, edge, correlated, directory, crashes>>

ApplyGroup(w) ==
    /\ pc[w] = "built"
    /\ directory' = [directory EXCEPT ![Row(w)[2]] = desired[w]]
    /\ pc' = [pc EXCEPT ![w] = "applied"]
    /\ UNCHANGED <<vars, members, edge, correlated, desired, crashes>>

Reset(w) ==
    /\ pc' = [pc EXCEPT ![w] = "idle"]
    /\ desired' = [desired EXCEPT ![w] = {}]
    /\ UNCHANGED <<members, edge, directory>>

FinishGroup(w) ==
    /\ pc[w] = "applied"
    /\ Succeed(w)
    /\ Reset(w)
    /\ UNCHANGED <<correlated, crashes>>

(* reconcileUser as far as groups see it: the account's external id is     *)
(* visible to other transactions when the worker commits.                  *)
FinishUser(w) ==
    /\ pc[w] = "claimed" /\ Row(w)[1] = "user"
    /\ Succeed(w)
    /\ correlated' = correlated \cup {Row(w)[2]}
    /\ Reset(w)
    /\ UNCHANGED crashes

(* Any call throws, before or after the target acted on it.                *)
Throw(w) ==
    /\ pc[w] \notin {"idle", "thrown"}
    /\ pc' = [pc EXCEPT ![w] = "thrown"]
    /\ UNCHANGED <<vars, members, edge, correlated, directory, desired, crashes>>

RecordFailure(w) ==
    /\ pc[w] = "thrown"
    /\ \E permanent \in BOOLEAN : Fail(w, permanent)
    /\ Reset(w)
    /\ UNCHANGED <<correlated, crashes>>

WorkerCrash(w) ==
    /\ crashes < MaxCrashes
    /\ crashes' = crashes + 1
    /\ Crash(w)
    /\ Reset(w)
    /\ UNCHANGED correlated

-----------------------------------------------------------------------------
GroupSyncInit ==
    /\ Init
    /\ members \in [Groups -> SUBSET Provisioned]
    /\ edge = [i \in Ids |-> {}]
    /\ correlated = Provisioned
    /\ directory = members
    /\ pc = [w \in Workers |-> "idle"]
    /\ desired = [w \in Workers |-> {}]
    /\ crashes = 0

GroupWork(w) ==
    \/ ClaimEvent(w) \/ BuildDesiredGroup(w) \/ ApplyGroup(w)
    \/ FinishGroup(w) \/ FinishUser(w)
    \/ Throw(w) \/ RecordFailure(w) \/ WorkerCrash(w)

QueueStep ==
    /\ \/ \E i \in Ids : BecomeDue(i)
       \/ \E o \in Operators : Operate(o)
    /\ UNCHANGED <<members, edge, correlated, directory, pc, desired, crashes>>

GroupSyncNext ==
    \/ \E p \in Producers : CommitWrite(p) \/ RollbackWrite(p)
    \/ \E p \in Producers, s \in Streams, E \in SUBSET Users : Write(p, s, E)
    \/ \E w \in Workers : GroupWork(w)
    \/ QueueStep

GroupSyncSpec == GroupSyncInit /\ [][GroupSyncNext]_gvars

-----------------------------------------------------------------------------
GroupOwed(g) ==
    \E i \in Ids : /\ status[i] \in {"pending", "failed"}
                   /\ stream[i] \in {<<"group", g>>, <<"membership", g>>}

UserOwed(u) == \E i \in Ids : status[i] \in {"pending", "failed"} /\ stream[i] = <<"user", u>>

(* The comment on reconcileAdStyleGroup and docs/01-overview.md: whatever  *)
(* order events are applied in, the group converges to the database.  One  *)
(* worker keeps that for the members it has always known: whenever the     *)
(* list is not theirs, an event of the group is queued or is a dead letter. *)
KnownMembersNeverSilentlyStale ==
    \A g \in Groups : ~GroupOwed(g) =>
        /\ directory[g] \subseteq members[g]
        /\ members[g] \cap Provisioned \subseteq directory[g]

(* The same for everybody.  Once the events of the group and of its        *)
(* members are done, its list is the members that have an account: it is   *)
(* not, for a member whose account came after the group's own event, and   *)
(* for anybody once two workers write one group.                           *)
GroupNeverSilentlyStale ==
    \A g \in Groups : ~GroupOwed(g) =>
        /\ directory[g] \subseteq members[g]
        /\ \A u \in members[g] \ directory[g] : UserOwed(u) \/ u \notin correlated

(* The target never lists a principal that has no account there, whatever  *)
(* was rolled back after its account was made.                             *)
OnlyAccountsListed == \A g \in Groups : directory[g] \subseteq correlated
=============================================================================
