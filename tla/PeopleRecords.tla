---------------------------- MODULE PeopleRecords ----------------------------
(***************************************************************************)
(* The users rows and the requests that write them.  A request locks the   *)
(* row it read until its transaction ends; other writers of the same rows  *)
(* (modules Lifecycle and Imports) do not.  Every write appends an audit   *)
(* record with the row before and after it, and an outbox event with the   *)
(* row after it.  What else those requests do is modelled elsewhere: the   *)
(* roles they re-evaluate in Entitlements, the accounts in Offboarding.    *)
(***************************************************************************)
EXTENDS Naturals, FiniteSets

CONSTANTS
    People, Units,
    Keys,        \* active attribute definitions
    SelfKeys,    \* those a person may edit about oneself
    Values, Unset,
    FirstRows,   \* the rows the system may start with
    Patches,     \* bound: what PATCH bodies say: a field and its new value
    LastDay,     \* bound: the days that pass
    Never,       \* no date
    Sessions, Nobody,
    MaxWrites    \* bound: requests sent to the API

Days == 0..LastDay
Dates == Days \cup {Never}

Statuses == {"pending", "active", "suspended", "deactivated"}

Attributes == [Keys -> Values \cup {Unset}]

Row ==
    [status : Statuses, unit : Units, start : Dates, end : Dates, attrs : Attributes]

Absent == [status |-> "none"]

ASSUME PeopleAssumption ==
    /\ FirstRows \subseteq [People -> Row \cup {Absent}]
    /\ SelfKeys \subseteq Keys
    /\ IsFiniteSet(People) /\ Nobody \notin People
    /\ LastDay \in Nat /\ MaxWrites \in Nat /\ Never \notin Days
    /\ Patches \subseteq [field : {"start", "end"}, value : Dates] \cup [field : {"attrs"}, value : Attributes]

VARIABLES
    person,   \* the users rows
    today,
    txn,      \* each session's request
    gaps,     \* history: writers whose audit record starts from another row than the one they replaced
    writes    \* requests sent to the API so far

pvars == <<person, today, txn, gaps, writes>>

Idle == [op |-> "none", on |-> Nobody, arg |-> Nobody, read |-> Absent]

Ops == {"update", "transfer", "activate", "deactivate", "self"}

PeopleTypeOK ==
    /\ person \in [People -> Row \cup {Absent}]
    /\ today \in Days
    /\ \A s \in Sessions : txn[s].op \in Ops \cup {"none"} /\ txn[s].read \in Row \cup {Absent}
    /\ gaps \subseteq {"request", "rule", "job", "import"}
    /\ writes \in 0..MaxWrites

-----------------------------------------------------------------------------
Exists(p) == person[p] # Absent

(* Mutant of Locked: nobody's SELECT ... FOR UPDATE keeps a writer out.     *)
LockedByNobody(p) == FALSE

(* A request has p's row under SELECT ... FOR UPDATE.                      *)
Locked(p) == \E s \in Sessions : txn[s].on = p

(* Mutant of AllowedTransitions: a leaver must have been active.            *)
ActiveFirst ==
    [pending |-> {"active"}, active |-> {"suspended", "deactivated"},
     suspended |-> {"active", "deactivated"}, deactivated |-> {}]

AllowedTransitions ==
    [pending |-> {"active", "deactivated"}, active |-> {"suspended", "deactivated"},
     suspended |-> {"active", "deactivated"}, deactivated |-> {}]

(* The row, its audit record and its event are one transaction.            *)
Write(p, row, by, before) ==
    /\ person' = [person EXCEPT ![p] = row]
    /\ gaps' = IF before # person[p] THEN gaps \cup {by} ELSE gaps

CanBecome(p, next) == Exists(p) /\ next \in AllowedTransitions[person[p].status]

(* changeStatus: one conditional UPDATE.                                   *)
ChangeStatus(p, next, by, before) ==
    /\ CanBecome(p, next)
    /\ Write(p, [person[p] EXCEPT !.status = next], by, before)

(* UsersRepository.update: what the patch names.                           *)
Patched(row, patch) == [row EXCEPT ![patch.field] = patch.value]

(* Some attributes merged into the others.                                 *)
Merged(attrs, edits) == [k \in Keys |-> IF k \in DOMAIN edits THEN edits[k] ELSE attrs[k]]

(* A created person is pending, with the dates and attributes given.       *)
NewRow(unit, patch) ==
    Patched([status |-> "pending", unit |-> unit, start |-> Never, end |-> Never,
             attrs |-> [k \in Keys |-> Unset]], patch)

-----------------------------------------------------------------------------
(* UsersController.create.                                                 *)
CreateUser(p, unit, patch) ==
    /\ writes < MaxWrites /\ writes' = writes + 1
    /\ ~Exists(p)
    /\ Write(p, NewRow(unit, patch), "request", Absent)
    /\ UNCHANGED <<today, txn>>

(* findByIdForUpdate and the checks on the row it returns.                 *)
Begin(s, op, p, arg) ==
    /\ txn[s] = Idle /\ writes < MaxWrites
    /\ Exists(p) /\ ~Locked(p)
    /\ txn' = [txn EXCEPT ![s] = [op |-> op, on |-> p, arg |-> arg, read |-> person[p]]]
    /\ writes' = writes + 1
    /\ UNCHANGED <<person, today, gaps>>

End(s) ==
    /\ txn' = [txn EXCEPT ![s] = Idle]
    /\ UNCHANGED <<today, writes>>

Rollback(s) ==
    /\ txn[s] # Idle
    /\ End(s)
    /\ UNCHANGED <<person, gaps>>

(* PATCH /users/:id.  Attributes are replaced as a whole.                  *)
UpdateUser(s) ==
    /\ txn[s].op = "update"
    /\ Write(txn[s].on, Patched(person[txn[s].on], txn[s].arg), "request", txn[s].read)
    /\ End(s)

(* POST /users/:id/transfer.                                               *)
TransferUser(s) ==
    /\ txn[s].op = "transfer"
    /\ txn[s].arg # txn[s].read.unit
    /\ Write(txn[s].on, [person[txn[s].on] EXCEPT !.unit = txn[s].arg], "request", txn[s].read)
    /\ End(s)

(* POST /users/:id/activate and /deactivate.                               *)
ActivateUser(s) ==
    /\ txn[s].op = "activate"
    /\ ChangeStatus(txn[s].on, "active", "request", txn[s].read)
    /\ End(s)

DeactivateUser(s) ==
    /\ txn[s].op = "deactivate"
    /\ ChangeStatus(txn[s].on, "deactivated", "request", txn[s].read)
    /\ End(s)

(* PATCH /self: the attributes one may edit, merged into the others.       *)
SelfUpdate(s) ==
    /\ txn[s].op = "self"
    /\ Write(txn[s].on,
             [person[txn[s].on] EXCEPT !.attrs = Merged(txn[s].read.attrs, txn[s].arg)],
             "request", txn[s].read)
    /\ End(s)

Tick ==
    /\ today < LastDay
    /\ today' = today + 1
    /\ UNCHANGED <<person, txn, gaps, writes>>

-----------------------------------------------------------------------------
PeopleInit ==
    /\ person \in FirstRows
    /\ today = 0
    /\ txn = [s \in Sessions |-> Idle]
    /\ gaps = {}
    /\ writes = 0

Ask(s, p) ==
    \/ \E patch \in Patches : Begin(s, "update", p, patch)
    \/ \E u \in Units : Begin(s, "transfer", p, u)
    \/ \E op \in {"activate", "deactivate"} : Begin(s, op, p, Nobody)
    \/ \E k \in SelfKeys, v \in Values : Begin(s, "self", p, [own \in {k} |-> v])

Finish(s) ==
    \/ UpdateUser(s) \/ TransferUser(s) \/ ActivateUser(s) \/ DeactivateUser(s)
    \/ SelfUpdate(s) \/ Rollback(s)

PeopleNext ==
    \/ \E p \in People, u \in Units, patch \in Patches : CreateUser(p, u, patch)
    \/ \E s \in Sessions, p \in People : Ask(s, p)
    \/ \E s \in Sessions : Finish(s)
    \/ Tick

-----------------------------------------------------------------------------
(* users.controller.ts, activate: "an audit row whose `before` was never   *)
(* the immediate predecessor of its `after` is a false record".  Requests  *)
(* and attribute rules, which lock the row they read, never write one,     *)
(* whatever the jobs and imports do meanwhile.                             *)
LockedWritersTellTheTruth == gaps \cap {"request", "rule"} = {}

(* The same for every writer.                                              *)
AuditTellsTheTruth == gaps = {}
=============================================================================
