# identity-manager, in TLA+

identity-manager is a NestJS API over Postgres that owns people, groups, org
units and business roles, and keeps accounts, groups and applications on
external targets (Keycloak, Active Directory, Entra ID, Google Workspace, SCIM,
mail) equal to its database; a React console administers it. This directory
specifies the parts of it where two things happen at once or one after another
in an order nobody wrote down: the outbox and the worker that drains it, what
the connectors do at a target, what requests, jobs and imports do to the same
rows, how business roles give and take, how people decide about each other's
access, and what a page of the console shows while its answers are under way.

Paths below are relative to `apps/api/src` unless they start with `web:`
(`apps/web/src`), `docs/` or `deploy/`.

1. [Inventory](#1-inventory) 2. [Modules](#2-modules) 3. [Runs](#3-runs)
4. [Proofs](#4-proofs) 5. [Known divergences](#5-known-divergences)
6. [Not modelled](#6-not-modelled) 7. [Plan](#7-plan)

## 1. Inventory

| Component | State | Operations | What makes it correct |
|---|---|---|---|
| Outbox queue (`outbox/`) | `outbox_events`: stream (aggregate, target), status, attempts, next attempt | `record` in the caller's transaction; `claimNext`, `markDone`, failure, deferral; dead-letter retry | a stream is started in order, a row has one worker, every row settles; it is a queue |
| Directory sync (`outbox/sync.worker.ts`, `connectors/keycloak.connector.ts`) | the account at the target; per-user advisory locks | re-read the person, compute the desired account, update, enable, set groups; fan a group event out to its members | the account never goes back; when it differs something says so; it converges |
| Group sync (`sync.worker.ts`, `active-directory.connector.ts`) | the member list at the target; `external_identities` | re-read the members that have an account, write the list | lists only principals that exist; follows the database |
| Offboarding (`users/users.controller.ts`, `keycloak/revoke-access.ts`) | user status, the account's enabled flag, its sessions | commit the status and its event, then disable and log out inline, errors swallowed | a deactivated person cannot come back in unnoticed |
| Sync badge (`outbox/sync-state.repository.ts`) | none: computed from the latest events | one person, or a page of people | never says synced of an account that is not |
| Role evaluator (`business-roles/role-evaluator.ts`) | none: a pure function | conditions, exceptions, several roles | order-free, and refuses rather than guesses |
| Role entitlements (`role-reconciler.ts`, `role-reconciliation.job.ts`) | memberships and accounts with their `grant_source` | reconcile a person inside the transaction that changes them, or in a sweep; publish, enable, disable; hands | manual rows are never touched; an account outlives its grant only while a delivery is owed; sweeps converge |
| Role publication (`business-roles.repository.ts`, `sod-checker.ts`, `attribute-definitions.controller.ts`) | draft, its hash, the last simulation; conflicts; self-editable keys | save, simulate, publish; declare a conflict; define and patch an attribute | what is published was simulated; nobody edits their way into a role; no deadlock |
| Access requests, recertification | requests, campaigns, items, exceptions | ask, cancel, approve, deny; open, close, keep, revoke | nobody decides their own; one decision; an approval carries its exception |
| People lifecycle, JML rules (`jml/`, `users/`) | the `users` rows, rules and their firings | requests, transitions, the daily pass, bulk activation, the rules each move fires | each rule fires once for a move; a rule undoes no edit; leavers leave |
| HR feed, CSV import (`hr/`, `imports/`) | sources, their runs | fetch by pages, map, preview, guard, commit row by row | the guard bounds the run; a feed that stands still arrives whole |
| Group graph (`groups/`) | `group_group_members` | nest, un-nest, and whom that concerns | acyclic; the lists targets show are flat and complete |
| Org-unit tree, authorisation (`org-units/`, `authz/`) | materialised paths; `role_assignments` with scopes | create, rename, move, delete; assign, revoke | a unit's path is its parent's path and its label; nobody grants beyond their reach |
| Realms (`organizations/`, `organization.connector.ts`) | organization, realm, tokens of each process | create, suspend, activate; make, probe, enable the realm | people wait for their realm and arrive |
| Active Directory tree (`active-directory.connector.ts`) | containers and accounts, each replica's cache of names | create, rename, move units; move people | deliveries end, whatever a cache remembers |
| Other connectors (`entra-id`, `google-workspace`, `scim`, `keycloak`) | accounts, groups, memberships at the target | plan and apply, one request at a time | an apply that ended well shows what the row asks for |
| Connector registry and settings (`connector-registry.ts`, `connector-targets.controller.ts`) | one instance per kind, bound to the slot last resolved; a row of settings | resolve, request, patch | no patch undoes another |
| HTTP plumbing of the connectors | cached token, timers, waits | send, 401, 429, timeout | a call has its effect once |
| SSO applications (`sso-apps/`, `sync.worker.ts`) | rows, their client's id; clients | create, patch, enable, deliver, merge | the client shows its row |
| Attribute mappings (`attribute-target-mappings.*`) | rows of field and remote name | create, rename, switch, remove, acknowledge; send | a name that is switched off is cleared |
| Attribute migration (`attribute-migration.job.ts`) | data type, values, the approved preview | preview, commit | a commit changes only what was previewed |
| Target reconciliation (`target-reconciliation.job.ts`, `reconciliation.job.ts`) | none of its own | walk, compare, gate, apply or queue repairs | a quiet run converges, a quiet pass repairs |
| Console (`web:`) | what each page holds: rows, forms, dialog, commands under way | load, command, answer, navigate, type | what stays is what was read last; what waits is answered |
| Authentication, audit screens, bootstrap, health, configuration, deployment | - | - | stateless, or read-only |

### How they interact

Everything meets in two places. The **database** is shared by request handlers,
jobs and sync workers, in READ COMMITTED transactions: every statement sees what
is committed when it runs, and a check is worth what its locks are. The
**outbox** is how a change reaches a target: the transaction that makes the
change inserts a row for each target, a worker later claims it and re-reads the
database. The row says whom to look at, never what to write, so all the payload
a module keeps is whom an event is about. A group or membership event fans out
over people (targets that keep groups on the account) or asserts one list
(targets that keep members on the group). The role reconciler runs inside other
handlers' transactions and writes outbox rows of its own. Governance ends in
exceptions, which the evaluator reads; publication gives the evaluator its
formulas; the lifecycle and imports write the people it evaluates.

### What is hard

* Outbox ids are drawn before the commit; a row can become visible after a
  younger row of its stream, and `claimNext` orders only what it sees.
* One person is reached by events of many streams, hence by several workers.
* Remote calls are not in a worker's transaction: a crash, a timeout or a
  failure leaves some of them done, and a target has administrators of its own.
* A connector is shared by every slot of its kind, with one binding, one cache
  and one token, and calls interleave at every `await`.
* Reads that nothing locks decide writes: a parent's path, a role's definition,
  a campaign's status, a draft's simulation, the type of an attribute.
* Jobs and imports commit person by person and end where they fail.
* Walks page through a directory that changes under them.
* The console has loads and commands under way at once, whose answers come in
  any order, late, or never.

`PROJECT.json` lists each hazard with its line and the properties about it.

## 2. Modules

| Module | Stands for | Extends |
|---|---|---|
| `EventQueue` | what the outbox promises: lines of events handed out in order | |
| `Outbox` | the table; implements `EventQueue` | |
| `DirectorySync` | `reconcileUser`, the fan-out to it, and the badge (`resolveForUsers`) | `Outbox` |
| `Offboarding` | `deactivate` and its inline revocation | `DirectorySync` |
| `GroupSync` | `reconcileAdStyleGroup` | `Outbox` |
| `RoleEvaluator` | `evaluateRoles`, with its order-free meaning | |
| `Entitlements` | `RoleReconciler.reconcileUser` and all that calls it | `RoleEvaluator` |
| `Governance` | access requests, exceptions, campaigns | |
| `RolePublication` | drafts, simulation, publication, conflicts, self-editable keys | |
| `AttributeMigration` | preview and commit of a change of type beside profile edits | |
| `PeopleRecords` | the `users` rows and the requests that write them | |
| `Lifecycle`, `Imports` | the jobs and rules; the two doors for files of people | `PeopleRecords` |
| `HrIntake` | a source's settings and the fetching of a feed | |
| `OrgTree` | units, paths, scoped assignments | |
| `GroupGraph` | nesting, and the lists two kinds of target show | |
| `Directories` | plan and apply of the HTTP connectors, a request per step | |
| `ConnectorRegistry`, `HttpCalls` | resolution, binding and settings; one request with its token, waits and timer | |
| `AttributeMappings` | the editor of mappings, its requests, and what a synchronisation sends and clears | |
| `SsoApps` | applications as Keycloak clients | |
| `TargetReconciliation`, `Drift` | the on-demand run over one target; the nightly pass over Keycloak | |
| `Realms`, `AdTree` | an organization's realm; units and people in Active Directory | |
| `ConsoleState` | what an open page is, and the words its handlers are written in | |
| `ConsolePeople`, `ConsoleSystem` | every page: what can be done on it, and what its handlers make of an answer | `ConsoleState` |
| `Console` | a page, its loads and commands under way, and the service behind | both |
| `OutboxProofs` | theorems of the table, and that it is an `EventQueue` | `Outbox` |
| `DirectorySyncProofs` | of the directory sync beside offboarding, and of the badge | `Offboarding`, `OutboxProofs` |
| `GroupSyncProofs` | of the lists of members and of the console's pages | `GroupSync`, `Console`, `OutboxProofs` |
| `EntitlementsProofs` | of what roles give and take, and of what the evaluator answers | `MCRoles` |
| `GovernanceProofs` | of decisions, publication and migration | `Governance`, `RolePublication`, `AttributeMigration` |
| `LifecycleProofs` | of everything that writes people, and of the fetch of a feed | `Lifecycle`, `Imports`, `HrIntake` |
| `StructureProofs` | of nested groups and of the tree of units | `GroupGraph`, `OrgTree` |
| `TargetsProofs` | of the connectors and their plumbing, applications and realms, and of both reconciliations | `ConnectorRegistry`, `HttpCalls`, `AttributeMappings`, `SsoApps`, `Realms`, `Directories`, `Drift`, `TargetReconciliation` |
| `MC*` | instances for TLC | |

**Outbox.** A row is `void` until a producer's transaction inserts it
(`writing`), and `pending`, `done` or `failed` (a dead letter) once committed.
`Insert` draws the id at once, `Commit` shows the row. `Claim` is the
`SELECT ... FOR UPDATE SKIP LOCKED` with its `NOT EXISTS`; the row lock is the
worker's claim, so `Crash` needs no recovery step. A failure spends an attempt
and backs off, or makes a dead letter; a deferral spends nothing; backoff is that
a row is not `due` until `BecomeDue`. `FindFailed` and `Retry` are the two
statements of the operator's retry. `late` is history: rows that became pending
after a younger row of their stream had been started, the exception
`StreamOrder` makes. `EventQueue` has no transactions, locks, attempts or clock;
`Outbox` maps its rows onto it (`INSTANCE ... WITH`).

**DirectorySync** adds the transactions' changes, the account, and the worker's
steps through `applyEvent`: fan out, lock a user, read the row, read the groups
in a later statement, and three remote writes, with a throw or a crash possible
between any two. Locks of a failed apply fall with its savepoint.
`DeadlockVictim` is Postgres breaking a cycle. **Offboarding** adds the two
inline calls and the sessions open at the identity provider. The badge reads
only, so it is operators over the same state, at the end of `DirectorySync`.
**GroupSync** keeps the list on the group.

**RoleEvaluator** translates the loops with their early returns, as recursive
functions of the position in the list, and states what they should mean without an
order (`Meaning`). **Entitlements** is one person; a
session is one transaction, every reading statement of the reconcile is an action
in the order of the code, and `Commit` writes the difference with `grant_source`
in the delete's condition. **Governance** is one role and one campaign, each
handler taken a statement at a time; conditional updates block on a row lock and
then see the committed row.

**RolePublication.** A caller simulates, publishes, or writes a definition; the
gate's hash, the conflicts read one by one, the advisory lock of each key and
the row locks are separate steps. **AttributeMigration.** A value is a JSON type
and a text; `Convert` is the conversion table. The preview pages through the
holders, the commit re-reads and compares before it writes.

**PeopleRecords, Lifecycle, Imports, HrIntake.** A request locks the row it
read; jobs and imports do not. Each write appends the audit record's images, and
`gaps` remembers who wrote a false one. A run of a job is a program counter over
people and rules and ends with the first error. An import reads everybody its
file names once and writes row by row. A fetch reads page by page in the three
pagination modes while the feed changes.

**OrgTree, GroupGraph.** Units have a path; a creation builds it from an earlier
read, a rename rewrites the subtree in several statements, and scope checks read
it. Nesting takes the advisory lock, checks, inserts and records an event for
everybody it concerns. An event about a group is applied in one step, as
`GroupSync` has the inside.

**Directories.** The kind of target is chosen at first; `Plan` says what an
apply has to do, and `JobStep` does it a request at a time, each of which can
fail after it has been carried out. **ConnectorRegistry**: `bound` is the shared snapshot,
read again before each request. **HttpCalls** has a token cache, margins,
revocation, 429 and timers per exchange. **AttributeMappings** has requests that
read in one statement and write in another, and a synchronisation that reads what
to send and what it manages in two.

**SsoApps** delivers a row as it is when read, with two workers, lost answers and
Keycloak's own administrators. **TargetReconciliation** and **Drift** walk by
status and page over people who change. **Realms** follows one realm through its
requests, tokens minted too early for it, and dead letters revived; **AdTree** has
containers that carry what is below them, and caches of names per replica.

**The console.** A page is a record: its topic (whose page, or which filters), the
rows it shows and whose they are, forms, dialog, commands it waits for, a search
not sent yet. `PeoplePage(p)` and its like are the set of pages `p` can become by
one gesture; a gesture that sends adds to `busy`. `PersonDeactivated(w, c, ok,
got)` and its like are what the page waiting (`w`) becomes with the answer to
`c`. `XLoads` says how a page's loads behave: `guarded` (an older load is
dropped, the effect's `cancelled` flag), `clears` (a new load takes the error
away), `drops` (a failure takes the rows), `wipes` (skeleton while loading).
`Console` reads a load at one moment and delivers it at a later one, and lets a
command be taken with its answer lost. Values are `"a"` and `"b"`, enough to
tell an old row from a new one.

**Casts.** Modules that share no state share a run: `MCStructure` for one runs
either `OrgTree` or `GroupGraph`, the variable `cast` says which, and the other
stays where it began. Nothing is composed by that; it keeps the number of
configurations small.

## 3. Runs

`PROJECT.json` names them; `tlc -workers 2 -config X.cfg M` repeats one in at most
a few minutes.

| Run | Checks | Bounds |
|---|---|---|
| `outbox` | `StreamOrder`, `EveryEventSettles` (liveness), `ImplementsQueue` (refinement) | 2 streams, 2 producers, 2 workers, an operator, 3 rows, 2 attempts, 1 retry |
| `delivery` | `Converges` (liveness) | 2 people in 2 groups, 2 renames, 2 workers, 2 attempts, 1 crash |
| `people` | `NeverSilentlyStale`, `PersonBadgeIsHonest`, `ProfileNeverRegresses`, `SignInOnlyWhileOwed` | 1 person, 1 group, every kind of change, 2 rows, 2 workers, 2 attempts, 1 retry, 1 crash |
| `groups` | `KnownMembersNeverSilentlyStale` | 2 people, one with an account, 1 group, 2 producers, 1 worker, 3 rows, 2 attempts, 1 retry, 1 crash |
| | cast `console`: `SettledPagesAreCurrent`, `WaitsEnd` | 27 pages, 2 topics, a row, 2 commands, a change by others, 2 loads at once |
| `entitlements` | `RevokedAccountIsOwed`, `ManualRowsSurvive` | 1 role with 2 definitions (one not understood), 1 group, 1 account, 2 sessions, 2 writes beside any number of sweeps |
| | cast of the evaluator: `EvaluatorMeetsItsMeaning` | up to 2 roles, 2 conditions of 7, 2 exceptions, 12 people, 2 dates |
| `convergence` | `EntitlementsConverge` (liveness) | 1 role, 1 group, 2 sessions, 1 write, an expiry |
| | `QuietProvisioningNeverFails`, `PeopleArrive` (liveness) | one person, 1 or 2 processes, 2 organization events, 2 attempts, a fault, a revival |
| | `PeopleReachTheirUnit` (liveness) | 4 units, a person, 2 replicas, 3 changes, a fault |
| `governance` | `NobodyDecidesTheirOwn`, `DecisionsAreFinal`, `ApprovalsCarryTheirException` | 3 people, 1 request, a campaign, 2 sessions, 3 writes, 2 instants |
| | `NoCircleOfWaiters`, `PublishedAsSimulated` | 2 roles, 2 keys, 2 callers, 6 calls |
| | `OnlyApprovedValuesChange` | 5 texts, 3 data types, 2 holders, 2 edits |
| `lifecycle` | `RulesFireOnce`, `RulesKeepOtherEdits`, `LeaversLeave` (liveness) | 2 people, 1 session, the daily and the bulk job, 2 rules, 2 writes, a fault |
| | `GuardBoundsTheRun` | an upload and a feed, files of up to 2 rows, a crash |
| | `StillFeedsArriveWhole` | 3 records, pages of 2, the three modes, one change of the feed, one patch |
| `structure` | `PathsFollowParents`, `GrantsStayInReach` | 2 organizations, 4 units, 3 labels, 2 people, 2 sessions, 2 writes |
| | `NoCycles`, `NestedListsAreComplete` | 3 groups, a person, 2 requests, 4 writes, both kinds of target |
| `targets` | `SyncedMeansShown` | 2 people, 3 group names, the five kinds, of an edit, a failure and an edit at the target two at a time |
| | `NoPatchIsLost`, `NoEffectTwice` | 2 slots, 2 calls, 2 patches; 2 exchanges, 2 tokens, 2 throttles, each client |
| | `QuietRunsConverge`, `QuietPassesRepair` | 3 people and a group, pages of 2, a change, a failure; 2 people and a tenant's walked one by one, an edit, a meddling |
| | `AppsAreShown`, `DisabledIsCleared` | an application, 2 workers, 3 events, 2 clients; 2 custom fields, 2 remote names, an administrator |
| `tenant_realm` | `PeopleStayInTheirRealm`, violated | the nightly pass and a tenant's person |
| `role_publish` | `NoSelfGrantedRole`, violated | 2 callers, 5 calls |

**Why the bounds are enough.** Overtaking needs two rows of a stream, and a third
shows that a retried or backed-off one lets nobody pass; a race needs two workers,
sessions or calls; a deadlock two lock holders and two locks; dead-lettering
differs from backing off from the second attempt on. A path goes wrong with one
creation beside one rename, and a subtree needs two levels. A cycle by two
requests needs three groups if each edge is to be harmless alone. A page of two
and three records have a full, a partial and (by page) an empty page. A console
page needs two topics for one load to overtake another, and two commands for one
answer to overtake another. The bounds are constants in the guards
(`MaxEvents`, `MaxCrashes`, `MaxWrites`, ...); a program that runs longer starts
again from states of the same shape. Symmetry is over workers, sessions and
people where nothing tells them apart, and never with a liveness property.
Deadlock is not checked: every bounded run ends with its bounds used up. Every
action of every cast happens in its run.

**Fairness.** The poll loop re-arms itself whatever happened (`scheduleTick`,
`tick`), hence weak fairness of claiming and of each worker's own steps;
`next_attempt_at` passes, hence `WF` of `BecomeDue`. Nothing is assumed of
producers, operators, crashes, or of the outcome of a call: the attempts bound
failures. In `outbox` one thing is assumed of the outside: a row claimed over and
over is not deferred or cut off by a crash every single time (`SF` of
`SettleRow`); deferrals spend no attempts, so without it a row can be deferred for
ever, which is what the code does. `EntitlementsConverge` assumes that sweeps keep
starting: the repository ships the command (`role-reconcile-cli.ts`) and no timer
for it (`deploy/systemd` has timers for the lifecycle pass, reconciliation and
backup), so it shows what an operator gets by scheduling it. `LeaversLeave`
assumes the timer of the lifecycle pass and that transactions end.
`PeopleReachTheirUnit` assumes that the queue does not pass over one event for
ever (`SF` of claiming one person's), because it serves what has waited longest.

## 4. Proofs

`tlapm M.tla` checks each. They hold for all values of the constants that meet
the named assumptions of the modules: distinct model values, finite bounds, and
where something is counted or walked, finitely many people, groups or units. The
rest is the same everywhere: an invariant strong enough to be inductive, a lemma
for each action (or for each kind of step, where many actions are of one), and a
theorem that draws the property from it. What the strengthenings say is what the
code relies on.

**OutboxProofs** - `TypeCorrect`, `ClaimsAreExclusive`, `StreamsAreOrdered`,
`BudgetsHold`. `StreamOrder` is not inductive: a step that shows a row must know
that rows in a transaction are in that transaction alone, carry no attempts and
are claimed by nobody; a retry must know that the row the operator found was once
a dead letter. `IInv` adds these (`FreshRows`, `TxnRows`, `FoundRows`,
`HeldRowsAreOpen`, `QueuedRowsHaveBudget`), and `Invariance` goes through the
actions once. `TheOutboxIsAQueue`: every behaviour of the table is a behaviour of
`EventQueue`. A step's refinement needs `IInv` and `Drawn` (a row that was
inserted stands in a stream, so a smaller id is an elder of its line);
transactions' ends stutter or post, an insertion takes the next number, a claim
hands out, a release ends or puts back, an operator's retry revives.

**DirectorySyncProofs** - `DriftIsAlwaysOwed`, `BadgesAreHonest`, `ProfilesGrow`,
`SignInsAreOwed`, for any number of people, groups, producers and workers, and
beside the inline calls of offboarding. The account is kept in three parts, each
read and each written at a step of its own. `Covered` says of each part: an event
that weighs on the person has still to be applied to it (`Unspent`); or no worker
has an outdated reading of it in its hand, and it agrees with the database or is
being written for such an event. *Weighing* is the point: only the newest event
about a row of the database matters, which the row locks of the writers make the
last one committed (`RowsKnown`), and a worker that applies it read after it. The
per-user lock brackets reading and writing (`WorkersKnown`, `ProfilesLag`), so a
profile never goes back. Inline disabling touches only who is deactivated
(`OffboardingInv`).

**GroupSyncProofs** - `GroupsListAccounts`: the list at the target and the list
in a worker's hand contain correlated people only, with any number of workers,
crashes and retries; it is what remains true of a group two workers write.
`OneWorkerKeepsKnownMembers` has the hypothesis that there is one worker, which
is what its run has and the divergences show to be needed: `Kept` says that a list,
and what the worker has read of it, fits the members or an event of the group
beside the one in hand is open.

The same module proves the console, for any rows, topics and number of commands and
of changes by others; `PageAssumption` says that null and the tab that stops a
wizard are nothing a page can be about. `WaitingEnds` (`WaitsInv`): every gesture of
every page that marks something busy sends the command it marks (`GesturesWait`,
page by page), an answer takes away the mark of its own command and no other
(`EveryAnswerFrees`), and a dialog is held open only by one of the five whose handler
gives it back whatever the answer, or by the transfer that `WaitsEnd` excepts.
`PagesSettle` (`SettledInv`) has three kinds of page. One loads nothing and puts no
rows in place. One has itself read again by every command it can send
(`RereadingInv`): there is only ever one load, and an answer that has been read is
fresh, or somebody else changed the topic since, or the page will be read again. One
puts the answer of its only command in place (`AnsweringInv`): one command is under
way at a time, none before the load has arrived, and what it will leave in the page is
what the service has. `Overtakable` is what is left. The first attempt failed on the
campaign page, which the runs' bounds had let pass: see 5.

**EntitlementsProofs** - `RevocationsReachTheTarget`, `HumansOutrankFormulas`.
An account of an entitled-only target that is enabled without a grant has an
event pending. The strengthening follows the worker: whoever has read an event
still owes it (`InHand`), and if it has read an entitlement that is gone since,
another event is behind the one in its hand (`Overtaken`). The second is an action
property: no commit deletes or restamps a manual row, because the deletes name the
grant source. Neither depends on what the formulas answer; that is
`EveryEvaluationMeetsItsMeaning`: for any number of roles, any lists of exceptions
and conditions, any person and instant, `EvaluateRoles` answers `Meaning`, so no order
the database returns rows in matters, and no condition the binary does not
understand is guessed where it counts (`IsRole` asks only that a role has lists and
that an exception includes or excludes). It is an induction over each of the three
loops, which the provers cannot take from the library's theorems about an operator:
here a property of numbers is the set of those that have it, a set with 0 and every
successor is everything (`Induction`) because otherwise the rest has a least member
(`Least`, from the well-foundedness of inclusion among finite sets), and a loop has
an answer after each step (`Recursion`). What is true after n steps speaks of the
first n elements alone; nothing stronger is needed. `EvaluationsMeetTheirMeaning`
applies it to the run.

**GovernanceProofs** - of decisions: `GovernanceTypeCorrect`,
`NobodyIsJudgeInTheirOwnCause`, `DecidedOnce`, `ApprovedIsGranted`. The decision is
checked in one step and written in a later one, so the invariant says what a
transaction knows meanwhile: the steps fit the act (`StepsFit`), the actor is not
the person concerned (`NotOneself`), a transaction past its conditional update has
the row locked and still undecided (`RequestsInHand`, `ItemsInHand`) and the
exception it will write in hand (`GrantInHand`), a campaign changes under its lock
(`CampaignInHand`), and a draft has no items (`NoItemsInDraft`). Of publication:
`PublishesTheSimulated` (`AsSimulated`: the role's row is locked, so its draft is
the one the gate looked at), `LocksNeverCircle` (`InOrder`: who has a key has every
earlier one it names; a circle of waiters would have a highest key, by induction
over their order), `NoFormulaIsSelfEditable` (`Guarded`: what a publication or a
patch of an attribute knows of the other's locks). Its exception, a key that got its first row between
the publisher's two locks, is the divergence of `role_publish`. Of migration:
`MigrationsAreApproved` (from its check on a commit goes by what was approved, and
the rows it has locked are as they were seen: `AppliesTheApproved`).

**LifecycleProofs** - requests, both jobs, the rules and the imports write the same
people at once here (`WritersSpec`), which no run does. `RecordsInv`: a request
under way has its row locked alone and as it read it. From it
`LockedWritersAudit`. All that may become of a person in a step of anybody's is
`Evolves` - nobody is deleted, suspended or brought back - so whoever a run has
moved stays moved, and a second run finds a transition it refuses. `RulesToCome`
then says that the moves whose rules are still to come are in the hand of one run
each, once: `RulesOnce`. `RulesKeepEdits` is what `applySetAttribute` does to the
locked row. `ImportInHand`: a preview without a failing row has announced an
update of everybody known that the file names, a commit writes nobody else, and
more people trip the guard sooner (`TrippedByMore`): `GuardBounds`.
`StillFeedsAreWhole`, of `IntakeSpec`: as long as the feed stands still a fetch has
its beginning, as far as its requests have reached (`FetchInHand`); pages join
(`PagesJoin`), and as many pages as a whole fetch takes reach the end
(`EnoughPages`, the division by the page size).

**StructureProofs** - `NestingStaysAcyclic`, `ListsReachEverybody`: the code walks
the graph recursively; the walk's result is characterised once as the least set
closed under the edges (induction on its depth, by a least counterexample), after which
everything is about closed sets. The advisory lock has one holder and what its
check has found stays true (`ChecksHold`), and a list that is neither due nor
flattened says what the graph says (`ListsFollow`). `PathsFollow`,
`GrantsKeepToTheSubtree`, `ScopesAreSubtrees`: what a request that no write has
overtaken has read is still so (`Current`), and its reach is closed downwards
(`WithinReach`). `torn` and `overtaken` are histories: units and requests whose
read was written past, of which the divergences of `structure` show what happens;
paths are a prefix order only where nothing is torn, and first trees are orderly.

**TargetsProofs** - `PatchesBuildUp`, `FirstTokensFit`: a request in preparation has
the token of what it is addressed to unless it is sent for the second time
(`CallsInv`), however calls share the binding. `EffectsHappenOnce`,
`RefusalsAreTheServices`: what was served once is never sent again (`ServedOnce`),
and the token of a second attempt was fetched for it, so only a revocation
refuses it (`FreshSecondTime`). `WhatIsOffIsCleared`: the rows a synchronisation
sends are the rows there are, unless one changed since (`SyncInv`).
`DeliveredAppsAreShown`: unless an application's last event still waits, whoever
delivers the application has read the row as it is, and what has been written since
shows it (`UpToDate`); a worker holds a pending event and no two hold one
(`JobsHoldEvents`), and no client is, or may become, that of two applications
(`ClientsAreApart`). `QuietProvisioningWorks` (`RealmsInv`): what is done in a realm
is done after it was made, and with a token minted since unless a call has failed.
`WhatIsSyncedIsShown` (`DirInv`):
accounts have one owner and an owner one live account (`OwnAccounts`), so another
person's job writes neither this account nor its edges (`AccountsKept`,
`GroupsKept`); of the job itself `JobWell` says, request by request, what is done
already: the profile written is what was read with the wanted values, each name
that is not to do has its group in hand (`Collected`; SCIM, which joins as it goes:
`Joined`), and what is in hand, less what is to add, is where the account is. A job
of a row that changed meanwhile has an event behind it (`JobsReadLast`).
`QuietPassesMendDrift` (`DriftInv`): while nothing else happens, everybody the walk
has passed - the statuses before the one it is in, the listing up to its offset, the
page up to the row in hand - is as wanted or due for repair (`WalkHolds`). Nobody
is passed over, because the page is cut out of the whole list of a status
(`ListingsAreWhole`) and the walk ends only at a page that is empty.
`QuietRunsSettleEverybody` (`RunInv`) is the same of the on-demand run, whose page
is used up from its front: the rows in hand are the last of the page, as they still
are, and everybody before them has been looked at (`PageInHand`). A page that is not
full ends a status, because it ends the listing (`PagesEnd`). Whoever was flagged
stays in the hand of the run until asserted or failed.
`RunsStayWithinTheGuard` (`GuardBoundsTheTarget` by `GuardInv`; no run checks it): what is asserted and what is still to be,
together, is no more than was held against the guard, whatever fails, because one
more asserted is one less to do (`OneForOne`).

Only model-checked, because the provers cannot: all liveness and fairness
(`EveryEventSettles`, `Converges`, `LeaversLeave`, `EntitlementsConverge`,
`PeopleArrive`, `PeopleReachTheirUnit`). Every leaf is found in less than a third of
the time the provers are given, so the proofs do not hang on a fast machine.


## 5. Known divergences

Each row is a statement a document, a comment or a name in the code makes,
stated as a property and refuted by TLC on what the code does. Two are runs. The
others stand in the modules: put the property in the configuration named in place
of its own (and the bounds, where some are named) to see the behaviour.

| Property | Claim | What happens |
|---|---|---|
| `PeopleStayInTheirRealm` (run `tenant_realm`) | `docs/07-admin-guide.md:590-591` an organization has its own realm | `reconcile-cli.ts:52-58` builds a worker without a registry, so the nightly pass looks a tenant's people up in the master realm and creates them there |
| `NoSelfGrantedRole` (run `role_publish`) | `business-roles.repository.ts:290-291` two locks cover the two states of a key | a key that gets its row between them is covered by neither, and is patched self-editable past the publisher |

**Queue, directory, groups**

| Property, run | Claim and what happens |
|---|---|
| `OneInFlightPerStream`, `outbox` (1 stream, 1 producer, 2 rows) | `sync.worker.ts:1169-1171`: `claimNext` serialises a stream. Not against a row that commits late |
| `DoneIsTerminal`, `outbox` (2 operators, 1 row, 2 retries) | `outbox.repository.ts:223` "Terminal success." A second operator's retry resets a row delivered in between |
| `SessionsEndWithTheEvents`, `people` (only `deactivate`, 1 worker, 1 row, no crash) | `users.controller.ts:1285` "the outbox event will retry it". The inline logout fails, the event is delivered, and it never logs out |
| `ListBadgeIsHonest`, `people` (2 people, only `join`, 1 worker, 1 attempt) | `docs/product-brief.md:47-49`. On a page, one membership event per group is kept: a page-mate's newer event hides one's own |
| `DisabledStaysDisabled`, `people` (`deactivate`, `join`, `leave`) | `docs/07-admin-guide.md:186` "sign-in is blocked immediately". A worker with an older read enables the account once more; its own event then disables it |
| `GroupNeverSilentlyStale`, `groups` (nobody provisioned, or 2 workers) | `docs/01-overview.md:64`, `sync.worker.ts:1421-1422`. A member whose account comes after the group's event is left out; two workers write one group from two reads, the older last |
| `FlattenedListsSelfHeal`, `structure` | `sync.worker.ts:1588-1593` a flattened child "self-heals into a real nested edge the moment the child itself finishes syncing". Nothing asks for the parent again |

**Roles and decisions**

| Property, run | Claim and what happens |
|---|---|
| `HandAddedSurvives`, `entitlements` (no accounts, one definition) | `docs/03-data-model.md:234-235` "A hand-added membership survives a role that says otherwise." Adding by hand a member the role already added leaves the row the role's |
| `DisabledRoleHoldsNobody`, `entitlements` | `docs/07-admin-guide.md:719-722`. A save that read the role enabled writes its grant after the disable |
| `GrantedAccountIsOwed`, `entitlements` | `docs/07-admin-guide.md:718` "**Enable** grants immediately". A granted account records no event |
| `OffboardedAccountIsOwed`, `entitlements` | `docs/14-roadmap.md:105-106`. A sweep's grant and a deactivation commit in an order that leaves the account with nothing owed |
| `NoHalfPublishedRole`, `entitlements` (`Swapped` definitions, 2 groups) | `business-roles.repository.ts:183-187`. `loadDefinition` reads in three statements |
| `PublishCreatesNoViolation`, `governance` | `business-roles.repository.ts:163-166`. The count it goes by is as old as the simulation; the counterpart or the conflict is newer |
| `ApprovalsTakeEffect`, `governance` | `docs/10-api-reference.md:561-562` "never a 200 for an approval that silently did nothing". `approve` does not look at whether the role is enabled |
| `UndecidedStayPending`, `governance` | `recert-campaigns.controller.ts:428-431`. A decision that read the campaign open commits after it closed |
| `RevocationsOnlyRevoke`, `governance` | `docs/07-admin-guide.md:861`. The include became an exclude since the snapshot; expiring it gives the role back |
| `MigratedValuesValidate`, `ValuesFitTheirType`, `EditorsWithhold`, `governance` | a timestamp converts to a date its schema refuses later; a profile checked against the old type is written under the new one (`users.controller.ts:847-852`); the sensitive flag in an audit row is as old as the check |

**People, imports, units**

| Property, run | Claim and what happens |
|---|---|
| `AuditTellsTheTruth`, `lifecycle` | `users.controller.ts:1117-1125` a `before` that was never the predecessor of its `after` is a false record. Jobs, rules and imports (`lifecycle.job.ts:149`, `bulk-activate.job.ts:117`, `rule-applier.ts:232`, `imports.controller.ts:563`) read without the lock; so does `sso-apps.controller.ts:382` |
| `EveryMoveFiresItsRules`, `lifecycle` | `lifecycle.job.ts:64-77` "exactly once per user, ever, with no extra bookkeeping". A crash between the move and its rules loses them |
| `EveryRunIsRecorded`, `lifecycle` | `hr-sync.service.ts:221-226`. A run that throws or crashes leaves the source running |
| `CappedFeedsFail`, `lifecycle` (pages of 1: `PageSize = 1`) | `hr-fetch.ts:30` the page limit makes a feed "fail fast". It cuts it, and the cut feed is the feed |
| `PatchesTellTheTruth`, `lifecycle` (2 clerks, 2 patches, a second mapping in `MCSettings`) | the source's `before` is read outside the transaction |
| `NoGrantVanishes`, `structure` | `deleteIfUnused` refuses to revoke implicitly. A grant committed between its count and its delete goes with the unit |
| `PathsAlwaysFollowParents`, `structure` | `org-units.repository.ts`, `rename`: they "move together or the tree is inconsistent". A child created from the parent's old path keeps it |

**Targets**

| Property, run | Claim and what happens |
|---|---|
| `MembershipIsExactly`, `targets` (`MCEmailOf` giving two names one address) | `google-workspace.connector.ts:829`. Two groups that derive one address are one group |
| `OnlyRemovesWhatItAdded`, `targets` | `scim.connector.ts:623-625`. Foreign memberships are removed |
| `ForeignAttributesSurvive`, `TeamsMeet`, `targets` | Keycloak's attribute map is replaced, SCIM's PUT carries an older read; two jobs that find no group each create one |
| `NoSlotServesAnothersToken`, `RequestsGoWhereTheyWereResolved`, `targets` | `connector-registry.ts:231-233`, `:365-371`. A call suspended at an `await` goes on with the binding of whoever resolved since |
| `EverybodyIsWalked`, `GuardIsOfTheDirectory`, `NobodyIsCreatedUnentitled`, `targets` | who changes status during the walk is missed or counted twice; `target-reconciliation.job.ts:646-651`, the mode changes between plan and apply |
| `ExtrasAreNobodys`, `targets` | somebody hired and delivered between the pass's two readings is reported as nobody's |
| `WithdrawnIsGone`, `DeletedClientsComeBack`, `targets`; `ClientsAreKept` with a revival and a rename together | mappers and PKCE are asserted, never removed; a deleted client is looked for by its id for ever; a client renamed before its id is stored is made again (`sync.worker.ts:1157-1163`) |
| `RenamesRelocate`, `EnablingIsAcknowledged`, `targets` | the value under the old name stays; a mapping is enabled against a number that has changed since it was shown |
| `OneFaultOneAttempt`, `convergence` | one lost answer leaves a token minted too early, and every attempt until it expires fails |
| `EveryoneIsAlwaysHome`, `NothingIsAbandoned`, `RenamesAreDelivered`, `convergence` | `active-directory.connector.ts:857`, `:878-881`. Two renames queued together, parent and child: whichever is first makes the other's old or new path wrong |

**Console** (cast `console` of `groups`). `Overtakable` names the pages on which
`SettledPagesAreCurrent` fails; take a page out of it to see how. For `campaign` that
takes `MaxSends = 3` and `MaxEdits = 2`: a load that others' changes and two further
openings overtake replaces what the last opening answered. The changes there empty an
opened campaign again, as `Edit` may with any topic; the service only does so to a
campaign that was never opened, so the page is left out of the claim rather than
reported as wrong. `WaitsEnd` names
the two handlers that leave something waiting.

* `PersonDetailPage` `handleConfirmTransfer` (`web:people/PersonDetailPage.tsx:228`)
  resolves without closing when the transfer is refused or nothing is chosen;
  `ConfirmDialog` stays submitting and can be neither confirmed nor dismissed.
* `GroupNestedGroupsTab` `handleAdd` (`:72`) never resets `addSubmitting` on
  success; after one nesting the form's buttons stay disabled.
* Loads without a `cancelled` flag - the roles of a person, members and nested
  groups, applications, HR sources, conflicts, the catalogue, organizations - let
  an older answer, or another person's, replace a newer one.
* `PersonDetailPage`, the role detail and the application page write the answers
  of commands into the page beside loads and each other: the last to arrive stays.
* A unit created as the organization is switched is put into the other one's list;
  one created while a load is under way is lost when the older list arrives.
* Combobox keeps options of the previous search selectable while it searches.
* Role detail: a simulation's or an enabling's answer discards unsaved edits
  (`BusinessRoleDetailPage.tsx:201-210`, `:321-322`).
* Clearing the filters of the people list or the audit log leaves the debounce
  pending: the search comes back.
* A late preview of another file or source is shown and enables its commit
  (`ImportPage.tsx:201-202`, `HrSourcesPage.tsx:992`).

The last two are how the pages are modelled; no property of a run is about them.

## 6. Not modelled

Wire formats and protocols (LDAP, Graph, SCIM, SMTP), parsing, validation and
wording; token verification; configuration, health and bootstrap; deployment:
stateless or I/O. Payloads of events are only whom they are about, because the
worker re-reads. Realm deferral in `Outbox` is a deferral with no reason; the
reason is in `Realms`. The role miner, the mail connector's content and the
data-flow screen only read. Of the console: pages that only list or only create,
editors whose state is the draft of one form (role definition, column mapping,
connector settings), dry runs, approvals, and the shell with its sign-in. The
bodies of one organization are kept apart by conditions on every query; only
`OrgTree`, `ConnectorRegistry`, `Drift` and `Realms` have more than one.

Stated and holding, not in a run: the type invariants (`GovernanceTypeOK` and
`TypeOK` are theorems), `ClaimsAreExclusive`'s `HeldRowsAreOpen`,
`OnlyAccountsListed`, `QueuedRowsHaveBudget`, `LockedWritersTellTheTruth`,
`ScopeIsTheSubtree`, `FirstTokenFitsTheService`, `StaleTokensAreInvisible` and
`SelfEditableDecidesNothing` (all theorems), `ListsShowWhatIsPermitted`,
`NobodyIsForgotten`, `TargetsAgree`, `PlansAreQuietOnceSynced`,
`SensitiveValuesComeBack`, `SuspendedIsShutOrOwed`,
`EveryoneIsHome`, `TimedCallsEnd` (of the clients whose timer covers the body; the
timers of the Google, Entra and SCIM clients are cleared with the headers).

## 7. Plan

Done: the queue and its abstract specification, the directory and group syncs,
offboarding, the badge, roles and their publication, governance, the lifecycle
and imports, the org-unit tree and group graph, realms, Active Directory's tree,
the HTTP connectors with registry and plumbing, applications, mappings,
migration, both reconciliations, and the console's pages.

Proved: every property of the passing runs that is not liveness.

Out of the provers' reach: liveness and `ENABLED`.
