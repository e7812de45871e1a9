------------------------ MODULE TargetReconciliation ------------------------
(***************************************************************************)
(* The on-demand reconciliation of one target                              *)
(* (outbox/target-reconciliation.job.ts): walk everybody, status by status *)
(* and page by page, and every group; ask the connector what it would      *)
(* change; hold the count against the blast-radius guard; and only then    *)
(* assert the flagged people and groups, each in a transaction of its own. *)
(*                                                                         *)
(* The directory does not stand still meanwhile: people change status,     *)
(* values and entitlement, the outbox worker delivers, somebody edits the  *)
(* target by hand, and an operator flips the target to entitled_only.      *)
(***************************************************************************)
EXTENDS Naturals, Sequences, FiniteSets, SequencesExt

CONSTANTS Everybody,     \* everybody of the organization, in username order
          AllGroups,     \* its groups, in the order the walk lists them
          Statuses,   \* ALL_USER_STATUSES, in the order they are walked
          PageSize,   \* PAGE_SIZE
          Percent,    \* connector_targets.blast_radius_threshold
          Floor,      \* connector_targets.blast_radius_floor
          MaxChanges,   \* bound: changes made around the run
          MaxFailures   \* bound: calls that fail

ASSUME ReconciliationAssumption ==
    /\ IsInjective(Everybody) /\ IsInjective(AllGroups) /\ IsInjective(Statuses)
    /\ Everybody \in Seq(ToSet(Everybody)) /\ AllGroups \in Seq(ToSet(AllGroups))
    /\ Statuses \in Seq(ToSet(Statuses)) /\ "active" \in ToSet(Statuses)
    /\ PageSize \in Nat \ {0} /\ Percent \in 0..100 /\ Floor \in Nat
    /\ MaxChanges \in Nat /\ MaxFailures \in Nat

VARIABLES
    person,    \* the users table: [status, value] of each person
    members,   \* a group's member list, as the one bit that matters
    mode,      \* connector_targets.provisioning_mode
    entitled,  \* user_target_accounts: who holds an account here
    account,   \* what the target holds of each person
    list,      \* and of each group
    run,       \* the run
    audited,   \* an override of this run is on record
    asserted,   \* the people and groups this run has asserted
    quiet,     \* nobody else changed anything since the run began
    changes, faults

sweepvars == <<person, members, mode, entitled, account, list, run, audited,
               asserted, quiet, changes, faults>>

Persons == ToSet(Everybody)
Lists == ToSet(AllGroups)

NoAccount == [exists |-> FALSE, enabled |-> FALSE, value |-> 0]

(* What loadTargetProvisioning resolves, once for a whole run. *)
Provisioning == [mode |-> mode, entitled |-> entitled]

MayHold(u, provisioning) ==
    provisioning.mode = "all_users" \/ u \in provisioning.entitled

(* buildDesiredUser: nobody is enabled who is not both active and entitled.*)
DesiredUser(u, row, provisioning) ==
    [exists |-> TRUE,
     enabled |-> row.status = "active" /\ MayHold(u, provisioning),
     value |-> row.value]

(* Not the code: who may hold nothing is left out of the walk.             *)
PlanForEntitled(u, row, provisioning) ==
    /\ MayHold(u, provisioning)
    /\ account[u] # DesiredUser(u, row, provisioning)

(* The operations of a plan, creation left out for who may hold nothing.   *)
PlanForUser(u, row, provisioning) ==
    IF account[u].exists
    THEN account[u] # DesiredUser(u, row, provisioning)
    ELSE MayHold(u, provisioning)

PlanForGroup(g) == list[g] # members[g]

(* The people of C, in the order of the listing.                           *)
RowsOf(C) ==
    LET upTo[i \in 0..Len(Everybody)] ==
          IF i = 0 THEN <<>>
          ELSE IF Everybody[i] \in C THEN Append(upTo[i - 1], Everybody[i])
          ELSE upTo[i - 1]
    IN  upTo[Len(Everybody)]

Listing(status) == RowsOf({u \in Persons : person[u].status = status})

(* Where the page at an offset ends: LIMIT, or the end of the listing.     *)
PageEnd(rows, offset) ==
    IF offset + PageSize < Len(rows) THEN offset + PageSize ELSE Len(rows)

(* One page of usersRepository.list: the rows as they are read.            *)
PageOf(status, offset) ==
    LET rows == Listing(status)
    IN  [i \in 1..(PageEnd(rows, offset) - offset) |-> rows[offset + i]]

(* evaluateBlastRadius: both the share and the count must be exceeded.     *)
Tripped(changed, population) ==
    /\ population > 0 /\ changed * 100 > population * Percent
    /\ changed > Floor

Changed == Len(run.people) + Len(run.groups)

NoRun == [phase |-> "idle", dry |-> FALSE, force |-> FALSE,
         provisioning |-> [mode |-> "all_users", entitled |-> {}],
         status |-> 1, offset |-> 0, page |-> <<>>, full |-> FALSE,
         population |-> 0, people |-> <<>>, groups |-> <<>>, failed |-> {}]

-----------------------------------------------------------------------------
(* The run. *)

StartRun(dry, force) ==
    /\ run.phase = "idle"
    /\ run' = [NoRun EXCEPT !.phase = "walk", !.dry = dry, !.force = force,
                           !.provisioning = Provisioning]
    /\ audited' = FALSE /\ asserted' = {} /\ quiet' = TRUE
    /\ UNCHANGED <<person, members, mode, entitled, account, list, changes,
                   faults>>

RunStep == UNCHANGED <<person, members, mode, entitled, quiet, changes>>

(* The walk of a status is over: the next one, or the groups.              *)
NextStatus(r) ==
    LET last == r.status = Len(Statuses)
    IN  [r EXCEPT !.page = <<>>, !.full = FALSE, !.offset = 0,
                  !.phase = IF last THEN "groups" ELSE "walk",
                  !.status = IF last THEN 1 ELSE @ + 1]

NextPage(r) == [r EXCEPT !.page = <<>>, !.offset = @ + PageSize]

ReadPage ==
    /\ run.phase = "walk" /\ run.page = <<>>
    /\ LET page == PageOf(Statuses[run.status], run.offset)
       IN  run' = IF page = <<>> THEN NextStatus(run)
                  ELSE [run EXCEPT
                        !.page = [i \in DOMAIN page |->
                                    [who |-> page[i], row |-> person[page[i]]]],
                        !.full = Len(page) = PageSize]
    /\ RunStep /\ UNCHANGED <<account, list, audited, asserted, faults>>

(* After a person: the rest of the page, and after a page that was not     *)
(* full no other.                                                          *)
Onward(r) ==
    IF Len(r.page) > 1 THEN [r EXCEPT !.page = Tail(@)]
    ELSE IF r.full THEN NextPage(r) ELSE NextStatus(r)

(* Each person is planned in a transaction of its own, from the row of the *)
(* page and the entitlements of the start.                                 *)
PlanUser ==
    /\ run.phase = "walk" /\ run.page # <<>>
    /\ LET who == run.page[1].who
           seen == [run EXCEPT !.population = @ + 1]
       IN  run' = Onward(IF PlanForUser(who, run.page[1].row, run.provisioning)
                         THEN [seen EXCEPT !.people = Append(@, who)]
                         ELSE seen)
    /\ RunStep /\ UNCHANGED <<account, list, audited, asserted, faults>>

PlanGroup ==
    /\ run.phase = "groups" /\ run.status <= Len(AllGroups)
    /\ LET g == AllGroups[run.status]
       IN  run' = [run EXCEPT
                   !.population = @ + 1, !.status = @ + 1,
                   !.groups = IF PlanForGroup(g) THEN Append(@, g) ELSE @]
    /\ RunStep /\ UNCHANGED <<account, list, audited, asserted, faults>>

Halts(j) == j.dry \/ (Tripped(Len(j.people) + Len(j.groups), j.population)
                      /\ ~j.force)

Decide ==
    /\ run.phase = "groups" /\ run.status > Len(AllGroups)
    /\ run' = [run EXCEPT !.phase =
                 IF Halts(run) THEN "halted"
                 ELSE IF Tripped(Changed, run.population) THEN "override"
                 ELSE "apply"]
    /\ RunStep /\ UNCHANGED <<account, list, audited, asserted, faults>>

(* The override is committed before the first principal is touched.        *)
AuditOverride ==
    /\ run.phase = "override"
    /\ run' = [run EXCEPT !.phase = "apply"]
    /\ audited' = TRUE
    /\ RunStep /\ UNCHANGED <<account, list, asserted, faults>>

(* reconcileUser: everything is read again, and asserted whatever the plan *)
(* was.                                                                    *)
ApplyUser ==
    /\ run.phase = "apply" /\ run.people # <<>>
    /\ LET u == run.people[1]
       IN  /\ account' = [account EXCEPT
                          ![u] = DesiredUser(u, person[u], Provisioning)]
           /\ asserted' = asserted \cup {u}
    /\ run' = [run EXCEPT !.people = Tail(@)]
    /\ RunStep /\ UNCHANGED <<list, audited, faults>>

RepairGroup ==
    /\ run.phase = "apply" /\ run.people = <<>> /\ run.groups # <<>>
    /\ LET g == run.groups[1]
       IN  /\ list' = [list EXCEPT ![g] = members[g]]
           /\ asserted' = asserted \cup {g}
    /\ run' = [run EXCEPT !.groups = Tail(@)]
    /\ RunStep /\ UNCHANGED <<account, audited, faults>>

(* One principal's failure is collected and the rest goes on. *)
ApplyFails ==
    /\ run.phase = "apply" /\ faults < MaxFailures
    /\ \/ /\ run.people # <<>>
          /\ run' = [run EXCEPT !.people = Tail(@), !.failed = @ \cup {run.people[1]}]
       \/ /\ run.people = <<>> /\ run.groups # <<>>
          /\ run' = [run EXCEPT !.groups = Tail(@), !.failed = @ \cup {run.groups[1]}]
    /\ faults' = faults + 1
    /\ RunStep /\ UNCHANGED <<account, list, audited, asserted>>

(* Anything that fails before the apply phase ends the run.                *)
RunThrows ==
    /\ run.phase \in {"walk", "groups", "override"} /\ faults < MaxFailures
    /\ run' = NoRun /\ faults' = faults + 1 /\ audited' = FALSE
    /\ RunStep /\ UNCHANGED <<account, list, asserted>>

Report ==
    /\ \/ run.phase = "apply" /\ run.people = <<>> /\ run.groups = <<>>
       \/ run.phase = "halted"
    /\ run' = NoRun /\ audited' = FALSE /\ asserted' = {}
    /\ RunStep /\ UNCHANGED <<account, list, faults>>

-----------------------------------------------------------------------------
(* Around it. *)

(* A change before a run is a run from another initial state.              *)
Change ==
    /\ run.phase # "idle"
    /\ changes < MaxChanges /\ changes' = changes + 1 /\ quiet' = FALSE
    /\ UNCHANGED <<run, audited, asserted, faults>>

ChangeStatus(u, s) ==
    /\ person[u].status # s
    /\ person' = [person EXCEPT ![u].status = s]
    /\ Change /\ UNCHANGED <<members, mode, entitled, account, list>>

UpdateUser(u) ==
    /\ person' = [person EXCEPT ![u].value = 1 - @]
    /\ Change /\ UNCHANGED <<members, mode, entitled, account, list>>

UpdateMembers(g) ==
    /\ members' = [members EXCEPT ![g] = 1 - @]
    /\ Change /\ UNCHANGED <<person, mode, entitled, account, list>>

ChangeEntitlement(u) ==
    /\ entitled' = IF u \in entitled THEN entitled \ {u} ELSE entitled \cup {u}
    /\ Change /\ UNCHANGED <<person, members, mode, account, list>>

FlipMode ==
    /\ mode' = IF mode = "all_users" THEN "entitled_only" ELSE "all_users"
    /\ Change /\ UNCHANGED <<person, members, entitled, account, list>>

(* The outbox delivers a person meanwhile, *)
Deliver(u) ==
    /\ account[u] # DesiredUser(u, person[u], Provisioning)
    /\ account' = [account EXCEPT ![u] = DesiredUser(u, person[u], Provisioning)]
    /\ Change /\ UNCHANGED <<person, members, mode, entitled, list>>

(* and the target is edited by hand: an account removed or switched.       *)
Meddle(u) ==
    /\ account[u].exists
    /\ \E a \in {NoAccount, [account[u] EXCEPT !.enabled = ~@]} :
          account' = [account EXCEPT ![u] = a]
    /\ Change /\ UNCHANGED <<person, members, mode, entitled, list>>

-----------------------------------------------------------------------------
ReconciliationInit ==
    /\ person = [u \in Persons |-> [status |-> "active", value |-> 0]]
    /\ members = [g \in Lists |-> 1]
    /\ mode \in {"all_users", "entitled_only"}
    /\ entitled \in SUBSET Persons
    /\ account \in [Persons -> {NoAccount, [exists |-> TRUE, enabled |-> TRUE,
                                            value |-> 0]}]
    /\ list \in [Lists -> {0, 1}]
    /\ run = NoRun /\ audited = FALSE /\ asserted = {} /\ quiet = TRUE
    /\ changes = 0 /\ faults = 0

Run ==
    \/ \E dry, force \in BOOLEAN : StartRun(dry, force)
    \/ ReadPage \/ PlanUser \/ PlanGroup \/ Decide \/ AuditOverride
    \/ ApplyUser \/ RepairGroup \/ ApplyFails \/ RunThrows \/ Report

Meanwhile ==
    \/ \E u \in Persons : \/ \E s \in ToSet(Statuses) : ChangeStatus(u, s)
                          \/ UpdateUser(u) \/ ChangeEntitlement(u)
                          \/ Deliver(u) \/ Meddle(u)
    \/ \E g \in Lists : UpdateMembers(g)
    \/ FlipMode

ReconciliationNext == Run \/ Meanwhile

ReconciliationSpec == ReconciliationInit /\ [][ReconciliationNext]_sweepvars

-----------------------------------------------------------------------------
ReconciliationTypeOK ==
    /\ person \in [Persons -> [status : ToSet(Statuses), value : {0, 1}]]
    /\ members \in [Lists -> {0, 1}] /\ list \in [Lists -> {0, 1}]
    /\ mode \in {"all_users", "entitled_only"} /\ entitled \subseteq Persons
    /\ account \in [Persons -> [exists : BOOLEAN, enabled : BOOLEAN,
                                value : {0, 1}]]
    /\ run.phase \in {"idle", "walk", "groups", "override", "halted", "apply"}
    /\ asserted \subseteq Persons \cup Lists
    /\ audited \in BOOLEAN /\ quiet \in BOOLEAN
    /\ changes \in 0..MaxChanges /\ faults \in 0..MaxFailures

(* The guard bounds what is done, not what was planned: whatever a run     *)
(* touches, people and groups together, is within the share or the count   *)
(* the operator set, or it was forced and the override is already on       *)
(* record; and a run that was only to report touches nothing.              *)
GuardBoundsTheTarget ==
    asserted # {} =>
        /\ ~run.dry
        /\ Tripped(Cardinality(asserted), run.population)
             => run.force /\ audited

Settled(u) == LET desired == DesiredUser(u, person[u], Provisioning)
              IN  account[u] = desired
                  \/ (~account[u].exists /\ ~MayHold(u, Provisioning))

(* "A second run changes nothing": when a run that applied has come to its *)
(* end and nobody else interfered, everybody and every group of every      *)
(* status and page is as desired, except who failed in this run.           *)
QuietRunsConverge ==
    (run.phase = "apply" /\ run.people = <<>> /\ run.groups = <<>> /\ quiet)
      => /\ \A u \in Persons : u \in run.failed \/ Settled(u)
         /\ \A g \in Lists : g \in run.failed \/ list[g] = members[g]

-----------------------------------------------------------------------------
(* What the comments say and the code does not keep.                       *)

(* "for every in-scope principal (every user, every status)": every person *)
(* is planned exactly once, though statuses change under the walk.         *)
EverybodyIsWalked ==
    run.phase \in {"override", "apply", "halted"}
      => run.population = Len(Everybody) + Len(AllGroups)

(* The share is meant of the directory: nobody is counted twice in it.     *)
GuardIsOfTheDirectory ==
    (asserted # {} /\ ~run.force)
      => ~Tripped(Cardinality(asserted), Len(Everybody) + Len(AllGroups))

(* "bringing an account into existence, even a disabled one, is the one    *)
(* thing an unentitled user's desired state definitively does NOT include".*)
NobodyIsCreatedUnentitled ==
    [][\A u \in Persons :
         (ApplyUser /\ ~account[u].exists /\ account'[u].exists)
           => MayHold(u, Provisioning)]_sweepvars

=============================================================================
