----------------------------- MODULE Entitlements -----------------------------
(***************************************************************************)
(* Business roles at work on one person: RoleReconciler.reconcileUser run  *)
(* by every transaction that writes something a formula depends on and by  *)
(* the RoleReconciliationJob sweep, hand-made memberships beside it, and   *)
(* the person's accounts on the connector targets, which SyncWorker enables *)
(* and disables event by event.  Every transaction is READ COMMITTED: each *)
(* of its statements reads what is committed by then, plus its own writes. *)
(***************************************************************************)
EXTENDS RoleEvaluator, FiniteSets

CONSTANTS
    Roles,
    Groups,        \* groups a role may grant membership of
    Accounts,      \* enabled connector targets a role may grant an account on
    EntitledOnly,  \* those whose provisioning_mode is entitled_only
    Jobs,          \* job titles
    Definitions,   \* what a role may be published as: conditions and grants
    Sessions,      \* API requests and sweeps, one open transaction each
    MaxClock,      \* bound: the instants exceptions expire between
    MaxWrites      \* bound: writes and aborted transactions

Entitlements == Groups \cup Accounts

ASSUME EntitlementsAssumption ==
    /\ Groups \cap Accounts = {}
    /\ EntitledOnly \subseteq Accounts
    /\ \A d \in Definitions : d.grants \subseteq Entitlements
    /\ MaxClock \in Nat
    /\ MaxWrites \in Nat

VARIABLES
    person,      \* the users row: job title and status
    enabled,     \* roles whose enabled flag is set
    definition,  \* each role's published conditions and grants
    exception,   \* each role's exception for the person
    held,        \* grant_source of each entitlement row, "none" without one
    clock,
    owed,        \* user events not yet done, for each account
    sync,        \* what the worker at each account's event has read
    remote,      \* accounts that are enabled on their target
    pc, write, now, view, parts,   \* each session's transaction
    writes,      \* writes and aborts so far
    live, handed, retired          \* history: see the properties

database == <<person, enabled, definition, exception, held>>
delivery == <<owed, sync, remote>>
session == <<pc, write, now, view, parts>>
history == <<live, handed, retired>>
evars == <<database, clock, delivery, session, writes, history>>

Statuses == {"pending", "active", "suspended", "deactivated"}

AllowedTransitions(status) ==
    CASE status = "pending" -> {"active", "deactivated"}
      [] status = "active" -> {"suspended", "deactivated"}
      [] status = "suspended" -> {"active", "deactivated"}
      [] OTHER -> {}

Person == [job : Jobs, status : Statuses]

(* MaxClock + 1 is an exception without an expiry.                         *)
Exception == [mode : {"none", "include", "exclude"}, expiresAt : 0..MaxClock + 1]

NoException == [mode |-> "none", expiresAt |-> 0]

(* What a transaction has itself written before it reconciles.             *)
Update(j, T) == [kind |-> "update", job |-> j, events |-> T]

SetException(r, x) == [kind |-> "exception", role |-> r, exception |-> x]

Sweep(r) == [kind |-> "sweep", role |-> r]

NoRole == "no role"

Idle == [kind |-> "idle"]

-----------------------------------------------------------------------------
EvaluableUser(p) ==
    [id |-> "person", jobTitle |-> Text(<<p.job>>), location |-> Null,
     status |-> Text(<<p.status>>), orgUnitId |-> Null, orgUnitPath |-> <<>>,
     attributes |-> [k \in {} |-> Null]]

EvaluableRole(r, conditions, grants, x) ==
    [id |-> r, conditions |-> conditions, grants |-> grants,
     exceptions |-> IF x.mode = "none" THEN <<>>
                    ELSE <<[userId |-> "person", mode |-> x.mode, expiresAt |-> x.expiresAt]>>]

(* What a reconcile that saw exactly the committed state would answer.     *)
Evaluation ==
    EvaluateRoles(EvaluableUser(person),
        SetToSeq({EvaluableRole(r, definition[r].conditions, definition[r].grants, exception[r]) :
                     r \in enabled}),
        clock)

Agree ==
    Evaluation.evaluable =>
        \A e \in Entitlements :
            /\ e \in Evaluation.grants => held[e] # "none"
            /\ held[e] = "business_role" => e \in Evaluation.grants

EntitledTo(t) == t \notin EntitledOnly \/ held[t] # "none"

(* OutboxWriter.record for a user aggregate.                               *)
FanOut == {t \in Accounts : EntitledTo(t)}

Enqueue(T) == [t \in Accounts |-> owed[t] + IF t \in T THEN 1 ELSE 0]

BlankView ==
    [person |-> CHOOSE p \in Person : TRUE, enabled |-> {}, conditions |-> [r \in Roles |-> <<>>],
     grants |-> [r \in Roles |-> {}], exception |-> [r \in Roles |-> NoException],
     held |-> [e \in Entitlements |-> "none"]]

-----------------------------------------------------------------------------
(* Transactions that reconcile the person before they commit.              *)

Spend == writes < MaxWrites /\ writes' = writes + 1

Open(kind) == {s \in Sessions : write[s].kind = kind}

Begin(s, w) ==
    /\ pc[s] = "idle"
    /\ pc' = [pc EXCEPT ![s] = "user"]
    /\ write' = [write EXCEPT ![s] = w]
    /\ now' = [now EXCEPT ![s] = clock]
    /\ UNCHANGED <<view, parts>>

(* UsersController.update: the users row is locked until the commit, and   *)
(* the user event is recorded before the roles are evaluated.              *)
BeginUpdate(s, j) ==
    /\ Spend
    /\ Open("update") = {} /\ j # person.job
    /\ Begin(s, Update(j, FanOut))
    /\ UNCHANGED <<database, clock, delivery, history>>

(* addException, removeException, an approved access request and a         *)
(* recertification that expires an exception.                              *)
BeginException(s, r, x) ==
    /\ Spend
    /\ x # exception[r]
    /\ \A o \in Open("exception") : write[o].role # r
    /\ Begin(s, SetException(r, x))
    /\ UNCHANGED <<database, clock, delivery, history>>

(* reconcileAll reaches the person.                                        *)
BeginSweep(s) ==
    /\ Begin(s, Sweep(NoRole))
    /\ UNCHANGED <<database, clock, delivery, history, writes>>

(* publish and setEnabled commit, then sweep for the role.                 *)
Publish(s, r, d) ==
    /\ Spend
    /\ d # definition[r]
    /\ definition' = [definition EXCEPT ![r] = d]
    /\ live' = [live EXCEPT ![r] = @ \cup {d}]
    /\ Begin(s, Sweep(NoRole))
    /\ UNCHANGED <<person, enabled, exception, held, clock, delivery, handed, retired>>

SetEnabled(s, r) ==
    /\ Spend
    /\ enabled' = IF r \in enabled THEN enabled \ {r} ELSE enabled \cup {r}
    /\ retired' = retired \ {r}
    /\ Begin(s, Sweep(r))
    /\ UNCHANGED <<person, definition, exception, held, clock, delivery, live, handed>>

-----------------------------------------------------------------------------
(* reconcileUser, statement by statement.                                  *)

Read(s, from, to) ==
    /\ pc[s] = from
    /\ pc' = [pc EXCEPT ![s] = to]
    /\ UNCHANGED <<database, clock, delivery, write, now, writes, history>>

(* loadEvaluableUser                                                       *)
ReadUser(s) ==
    /\ Read(s, "user", "roles")
    /\ view' = [view EXCEPT ![s].person =
          IF write[s].kind = "update" THEN [person EXCEPT !.job = write[s].job] ELSE person]
    /\ UNCHANGED parts

(* listEnabledForEvaluation, then loadDefinition for each of the roles:    *)
(* conditions, grants and exceptions in that order.                        *)
ReadEnabledRoles(s) ==
    /\ Read(s, "roles", "definitions")
    /\ view' = [view EXCEPT ![s].enabled = enabled]
    /\ UNCHANGED parts

ReadPart(s, r, part) ==
    /\ r \in view[s].enabled /\ parts[s][r] = part
    /\ parts' = [parts EXCEPT ![s][r] = part + 1]
    /\ Read(s, "definitions", "definitions")

ReadConditions(s, r) ==
    /\ ReadPart(s, r, 0)
    /\ view' = [view EXCEPT ![s].conditions[r] = definition[r].conditions]

ReadGrants(s, r) ==
    /\ ReadPart(s, r, 1)
    /\ view' = [view EXCEPT ![s].grants[r] = definition[r].grants]

ReadExceptions(s, r) ==
    /\ ReadPart(s, r, 2)
    /\ view' = [view EXCEPT ![s].exception[r] =
          IF write[s].kind = "exception" /\ write[s].role = r THEN write[s].exception
          ELSE exception[r]]

ReadRows(s, from, to, E) ==
    /\ Read(s, from, to)
    /\ view' = [view EXCEPT ![s].held = [e \in Entitlements |-> IF e \in E THEN held[e] ELSE @[e]]]
    /\ UNCHANGED parts

ReadGroupRows(s) ==
    /\ \A r \in view[s].enabled : parts[s][r] = 3
    /\ ReadRows(s, "definitions", "groups", Groups)

ReadAccountRows(s) == ReadRows(s, "groups", "write", Accounts)

Answer(s) ==
    LET v == view[s]
    IN EvaluateRoles(EvaluableUser(v.person),
           SetToSeq({EvaluableRole(r, v.conditions[r], v.grants[r], v.exception[r]) :
                        r \in v.enabled}),
           now[s])

ToAdd(s) == {e \in Answer(s).grants : view[s].held[e] = "none"}

ToRemove(s) ==
    {e \in Entitlements : view[s].held[e] = "business_role" /\ e \notin Answer(s).grants}

End(s) ==
    /\ pc' = [pc EXCEPT ![s] = "idle"]
    /\ write' = [write EXCEPT ![s] = Idle]
    /\ now' = [now EXCEPT ![s] = 0]
    /\ view' = [view EXCEPT ![s] = BlankView]
    /\ parts' = [parts EXCEPT ![s] = [r \in Roles |-> 0]]

(* Mutants of Reconciled: the DELETE without its grant_source predicate;   *)
(* no DELETE at all.                                                       *)
ReconciledBlindly(s) ==
    [e \in Entitlements |->
        IF e \in ToAdd(s) /\ held[e] = "none" THEN "business_role"
        ELSE IF e \in ToRemove(s) THEN "none"
        ELSE held[e]]

ReconciledAddOnly(s) ==
    [e \in Entitlements |->
        IF e \in ToAdd(s) /\ held[e] = "none" THEN "business_role" ELSE held[e]]

(* INSERT ... ON CONFLICT DO NOTHING, DELETE ... WHERE grant_source =      *)
(* 'business_role': both see the rows as they are by now.                  *)
Reconciled(s) ==
    [e \in Entitlements |->
        IF e \in ToAdd(s) /\ held[e] = "none" THEN "business_role"
        ELSE IF e \in ToRemove(s) /\ held[e] = "business_role" THEN "none"
        ELSE held[e]]

(* Mutant of RevokeEvents: the revocation goes through OutboxWriter.record, *)
(* which no longer finds an entitlement.                                   *)
RevokeEventsRecorded(s) == {t \in ToRemove(s) \cap Accounts : t \notin EntitledOnly}

(* The rows reconcileUser inserts into the outbox itself.                  *)
RevokeEvents(s) == ToRemove(s) \cap Accounts

RecordedEvents(s) == IF write[s].kind = "update" THEN write[s].events ELSE {}

Commit(s) ==
    /\ pc[s] = "write" /\ Answer(s).evaluable
    /\ held' = Reconciled(s)
    /\ owed' = [t \in Accounts |-> owed[t]
                   + (IF t \in RevokeEvents(s) THEN 1 ELSE 0)
                   + (IF t \in RecordedEvents(s) THEN 1 ELSE 0)]
    /\ person' = IF write[s].kind = "update" THEN [person EXCEPT !.job = write[s].job] ELSE person
    /\ exception' = IF write[s].kind = "exception"
                    THEN [exception EXCEPT ![write[s].role] = write[s].exception] ELSE exception
    /\ retired' = IF write[s].kind = "sweep" /\ write[s].role \in Roles \ enabled
                  THEN retired \cup {write[s].role} ELSE retired
    /\ End(s)
    /\ UNCHANGED <<enabled, definition, clock, sync, remote, writes, live, handed>>

(* An unevaluable role: a sweep skips the person, a request is a 409 and   *)
(* everything it wrote is rolled back.                                     *)
Refuse(s) ==
    /\ pc[s] = "write" /\ ~Answer(s).evaluable
    /\ End(s)
    /\ UNCHANGED <<database, clock, delivery, writes, history>>

(* Any statement fails, Postgres breaks a deadlock, the process dies.      *)
Abort(s) ==
    /\ Spend
    /\ pc[s] # "idle"
    /\ End(s)
    /\ UNCHANGED <<database, clock, delivery, history>>

-----------------------------------------------------------------------------
(* GroupsController.addMember and removeMember.  The INSERT is ON CONFLICT *)
(* DO NOTHING and names no grant_source.                                   *)
HandAdd(g) ==
    /\ Spend
    /\ g \notin handed
    /\ held' = [held EXCEPT ![g] = IF @ = "none" THEN "manual" ELSE @]
    /\ handed' = handed \cup {g}
    /\ UNCHANGED <<person, enabled, definition, exception, clock, delivery, session, live, retired>>

HandRemove(g) ==
    /\ Spend
    /\ held[g] # "none"
    /\ held' = [held EXCEPT ![g] = "none"]
    /\ handed' = handed \ {g}
    /\ UNCHANGED <<person, enabled, definition, exception, clock, delivery, session, live, retired>>

(* activate, suspend and deactivate reconcile nothing.                     *)
ChangeStatus(st) ==
    /\ Spend
    /\ Open("update") = {}
    /\ st \in AllowedTransitions(person.status)
    /\ person' = [person EXCEPT !.status = st]
    /\ owed' = Enqueue(FanOut)
    /\ UNCHANGED <<enabled, definition, exception, held, clock, sync, remote, session, history>>

Tick ==
    /\ clock < MaxClock
    /\ clock' = clock + 1
    /\ UNCHANGED <<database, delivery, session, writes, history>>

(* Mutant of SyncReadUser: an event that is done is applied again.         *)
SyncReadUserAgain(t) ==
    /\ sync[t] = "idle"
    /\ sync' = [sync EXCEPT ![t] = IF person.status = "active" THEN "active" ELSE "disable"]
    /\ UNCHANGED <<database, clock, owed, remote, session, writes, history>>

(* SyncWorker at one of the account's events: buildDesiredUser reads the   *)
(* users row and then the entitlement; the connector applies.              *)
SyncReadUser(t) ==
    /\ owed[t] > 0 /\ sync[t] = "idle"
    /\ sync' = [sync EXCEPT ![t] = IF person.status = "active" THEN "active" ELSE "disable"]
    /\ UNCHANGED <<database, clock, owed, remote, session, writes, history>>

SyncReadEntitlement(t) ==
    /\ sync[t] = "active"
    /\ sync' = [sync EXCEPT ![t] = IF EntitledTo(t) THEN "enable" ELSE "disable"]
    /\ UNCHANGED <<database, clock, owed, remote, session, writes, history>>

Applied(t) == IF sync[t] = "enable" THEN remote \cup {t} ELSE remote \ {t}

SyncApply(t) ==
    /\ sync[t] \in {"enable", "disable"}
    /\ remote' = Applied(t)
    /\ owed' = [owed EXCEPT ![t] = @ - 1]
    /\ sync' = [sync EXCEPT ![t] = "idle"]
    /\ UNCHANGED <<database, clock, session, writes, history>>

(* The target acted and the answer was lost: the event stays.              *)
SyncFails(t) ==
    /\ sync[t] \in {"enable", "disable"}
    /\ remote' = Applied(t)
    /\ sync' = [sync EXCEPT ![t] = "idle"]
    /\ UNCHANGED <<database, clock, owed, session, writes, history>>

-----------------------------------------------------------------------------
EntitlementsInit ==
    /\ person \in [job : Jobs, status : {"active"}]
    /\ enabled \in SUBSET Roles
    /\ definition \in [Roles -> Definitions]
    /\ exception = [r \in Roles |-> NoException]
    /\ clock = 0
    /\ held \in {h \in [Entitlements -> {"none", "manual", "business_role"}] :
                    \A t \in Accounts : h[t] # "manual"}
    /\ Agree
    /\ owed = [t \in Accounts |-> 0]
    /\ sync = [t \in Accounts |-> "idle"]
    /\ remote = {t \in Accounts : EntitledTo(t)}
    /\ pc = [s \in Sessions |-> "idle"]
    /\ write = [s \in Sessions |-> Idle]
    /\ now = [s \in Sessions |-> 0]
    /\ view = [s \in Sessions |-> BlankView]
    /\ parts = [s \in Sessions |-> [r \in Roles |-> 0]]
    /\ writes = 0
    /\ live = [r \in Roles |-> {definition[r]}]
    /\ handed = {g \in Groups : held[g] = "manual"}
    /\ retired = {}

Request(s) ==
    \/ \E j \in Jobs : BeginUpdate(s, j)
    \/ \E r \in Roles, x \in Exception : BeginException(s, r, x)
    \/ \E r \in Roles, d \in Definitions : Publish(s, r, d)
    \/ \E r \in Roles : SetEnabled(s, r)

Reconcile(s) ==
    \/ ReadUser(s) \/ ReadEnabledRoles(s)
    \/ \E r \in Roles : ReadConditions(s, r) \/ ReadGrants(s, r) \/ ReadExceptions(s, r)
    \/ ReadGroupRows(s) \/ ReadAccountRows(s)
    \/ Commit(s) \/ Refuse(s)

Deliver(t) == SyncReadUser(t) \/ SyncReadEntitlement(t) \/ SyncApply(t) \/ SyncFails(t)

EntitlementsNext ==
    \/ \E s \in Sessions : Request(s) \/ BeginSweep(s) \/ Reconcile(s) \/ Abort(s)
    \/ \E g \in Groups : HandAdd(g) \/ HandRemove(g)
    \/ \E st \in Statuses : ChangeStatus(st)
    \/ \E t \in Accounts : Deliver(t)
    \/ Tick

EntitlementsSpec == EntitlementsInit /\ [][EntitlementsNext]_evars

(* Fairness: transactions go on, and role-reconcile is scheduled - the     *)
(* repository ships the job and leaves its timer to the operator.          *)
EntitlementsFairSpec ==
    /\ EntitlementsSpec
    /\ \A s \in Sessions : WF_evars(Reconcile(s))
    /\ WF_evars(\E s \in Sessions : BeginSweep(s))

-----------------------------------------------------------------------------
EntitlementsTypeOK ==
    /\ person \in Person
    /\ enabled \subseteq Roles
    /\ definition \in [Roles -> Definitions]
    /\ exception \in [Roles -> Exception]
    /\ held \in [Entitlements -> {"none", "manual", "business_role"}]
    /\ owed \in [Accounts -> Nat]
    /\ sync \in [Accounts -> {"idle", "active", "enable", "disable"}]
    /\ remote \subseteq Accounts
    /\ parts \in [Sessions -> [Roles -> 0..3]]

(* A membership a human made is never taken away by the role engine, on    *)
(* any path: not even one that replaced, between a reconcile's reads and   *)
(* its DELETE, the role's own row it had decided to revoke.                *)
ManualRowsSurvive ==
    [][\A g \in Groups :
          held[g] = "manual" => held'[g] = "manual" \/ HandRemove(g)]_evars

(* A revoked account is never orphaned: whenever an account is enabled on  *)
(* its target although the person is not entitled to it any more, an event *)
(* that will disable it is queued - whatever reconciles, status changes    *)
(* and half-read syncs the revocation interleaves with.                    *)
RevokedAccountIsOwed == \A t \in remote : ~EntitledTo(t) => owed[t] > 0

(* Whatever two unserialised reconciles leave behind, sweeps bring rows    *)
(* and roles back together once the writes stop.                           *)
EntitlementsConverge == <>[]Agree

(* role-reconciler.ts, reconcileUser: a hand-grant landing between the     *)
(* read and the write must not be swept up by it; docs/03-data-model.md: a *)
(* hand-added membership survives a role that says otherwise.              *)
HandAddedSurvives == \A g \in handed : held[g] # "none"

(* docs/07-admin-guide.md, Enable and disable: the sweep runs as part of   *)
(* the action; everyone held by the role loses every grant it makes.       *)
DisabledRoleHoldsNobody ==
    \A e \in Entitlements : held[e] = "business_role" =>
        \E r \in Roles \ retired : \E d \in live[r] : e \in d.grants

(* docs/07-admin-guide.md: enable grants immediately, and a grant is a     *)
(* membership or an account.  An entitled, active person's account that is *)
(* not enabled has an event coming.                                        *)
GrantedAccountIsOwed ==
    \A t \in Accounts : person.status = "active" /\ EntitledTo(t) =>
        t \in remote \/ owed[t] > 0

(* docs/14-roadmap.md: offboarding never acquires a dependency on a        *)
(* formula; deactivation keeps its unconditional path.  An account enabled *)
(* for a deactivated person has an event coming.                           *)
OffboardedAccountIsOwed ==
    person.status = "deactivated" => \A t \in remote : owed[t] > 0

(* BusinessRolesRepository.publish: conditions and grants are replaced in  *)
(* one transaction, because a half-published role would be a formula with  *)
(* someone else's grants.  No reconcile evaluates such a role.             *)
NoHalfPublishedRole ==
    \A s \in Sessions : \A r \in view[s].enabled : parts[s][r] >= 2 =>
        [conditions |-> view[s].conditions[r], grants |-> view[s].grants[r]] \in live[r]
=============================================================================
