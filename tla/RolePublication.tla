--------------------------- MODULE RolePublication ---------------------------
(***************************************************************************)
(* What stands between a business role's draft and its publication: the    *)
(* simulation of exactly that draft, the segregation of duties it reports, *)
(* and the rule that no published formula decides on an attribute its own  *)
(* subjects may edit.  The rule has two halves, one where a role is        *)
(* published and one where an attribute is made self-editable, and they    *)
(* meet in row locks and advisory locks taken under READ COMMITTED.        *)
(***************************************************************************)
EXTENDS Integers, Sequences, FiniteSets

CONSTANTS
    RoleIds,
    SortedKeys,      \* the attribute keys, in the order they sort
    Formulas,        \* what a draft may say: the keys it names, whom it holds for
    NoDraft,
    FirstKeys,       \* keys defined at first, none self-editable
    FirstFormula,    \* what is published at first
    Callers,         \* requests of administrators
    MaxCalls         \* bound: requests sent

AttributeKeys == {SortedKeys[i] : i \in 1..Len(SortedKeys)}

ASSUME PublicationAssumption ==
    /\ \A f \in Formulas : f.keys \subseteq AttributeKeys /\ IsFiniteSet(f.holders)
    /\ NoDraft \notin Formulas
    /\ FirstKeys \subseteq AttributeKeys
    /\ SortedKeys \in Seq(AttributeKeys)
    /\ FirstFormula \in [RoleIds -> Formulas]
    /\ \A i, j \in 1..Len(SortedKeys) : SortedKeys[i] = SortedKeys[j] => i = j
    /\ MaxCalls \in Nat

VARIABLES
    role,        \* business_roles, with the conditions published for each
    conflicts,   \* the enabled role_conflicts: pairs of roles
    attribute,   \* attribute_definitions that apply to users
    open,        \* each caller's request and its transaction
    calls,       \* requests sent so far
    slipped      \* history: keys defined behind the back of a publication naming them

pvars == <<role, conflicts, attribute, open, calls, slipped>>

Pairs == {{a, b} : a, b \in RoleIds} \ {{a} : a \in RoleIds}

Nothing ==
    [does |-> "nothing", role |-> NoDraft, key |-> NoDraft, on |-> FALSE, draft |-> NoDraft,
     others |-> {}, found |-> 0, keys |-> {}, rows |-> {}, locked |-> {}, step |-> "-"]

-----------------------------------------------------------------------------
(* Who holds what.  Publishing holds the role's row from its first         *)
(* statement to its end.                                                   *)
RoleHeld(c) == IF open[c].does = "publish" THEN {open[c].role} ELSE {}

RoleFree(r) == \A c \in Callers : r \notin RoleHeld(c)

KeyFree(k) == \A c \in Callers : k \notin open[c].keys

RowFree(k) == \A c \in Callers : k \notin open[c].locked

(* The row a create has inserted and not committed: a second insert of the *)
(* key waits on attribute_definitions_key_scope_unique.                    *)
Inserting(c, k) == open[c].does = "create" /\ open[c].step = "commit" /\ open[c].key = k

Call(c, does, r, k, on, f, step) ==
    /\ open[c].does = "nothing" /\ calls < MaxCalls
    /\ calls' = calls + 1
    /\ open' = [open EXCEPT ![c] =
          [Nothing EXCEPT !.does = does, !.role = r, !.key = k, !.on = on, !.draft = f,
                          !.step = step]]

Moved(c, step) == open' = [open EXCEPT ![c].step = step]

Done(c) == open' = [open EXCEPT ![c] = Nothing]

-----------------------------------------------------------------------------
(* saveDraft: whatever was simulated no longer counts.                     *)
Unsimulated(row) == [row EXCEPT !.simulated = NoDraft, !.found = 0]

SaveDraft(r, f) ==
    /\ calls < MaxCalls /\ RoleFree(r)
    /\ role' = [role EXCEPT ![r] = Unsimulated([@ EXCEPT !.draft = f])]
    /\ calls' = calls + 1
    /\ UNCHANGED <<conflicts, attribute, open, slipped>>

(* role_conflicts: declared, or its enabled flag turned.                   *)
SetConflict(pair) ==
    /\ calls < MaxCalls
    /\ conflicts' = (conflicts \ {pair}) \cup ({pair} \ conflicts)
    /\ calls' = calls + 1
    /\ UNCHANGED <<role, attribute, open, slipped>>

(* simulate: the draft is read, then the conflicts, then each counterpart  *)
(* as it is published, and the report is recorded by a later transaction.  *)
Simulate(c, r) ==
    /\ role[r].draft # NoDraft
    /\ Call(c, "simulate", r, NoDraft, FALSE, role[r].draft, "conflicts")
    /\ UNCHANGED <<role, conflicts, attribute, slipped>>

ReadConflicts(c) ==
    /\ open[c].does = "simulate" /\ open[c].step = "conflicts"
    /\ open' = [open EXCEPT
          ![c].others = {o \in RoleIds : {open[c].role, o} \in conflicts},
          ![c].step = "counterparts"]
    /\ UNCHANGED <<role, conflicts, attribute, calls, slipped>>

HeldByBoth(f, g) == f.holders \cap g.holders

ReadCounterpart(c) ==
    /\ open[c].does = "simulate" /\ open[c].step = "counterparts"
    /\ \E o \in open[c].others :
          open' = [open EXCEPT
              ![c].others = @ \ {o},
              ![c].found = @ + Cardinality(HeldByBoth(open[c].draft, role[o].published))]
    /\ UNCHANGED <<role, conflicts, attribute, calls, slipped>>

RecordSimulation(c) ==
    /\ open[c].does = "simulate" /\ open[c].step = "counterparts" /\ open[c].others = {}
    /\ RoleFree(open[c].role)
    /\ role' = [role EXCEPT ![open[c].role].simulated = open[c].draft,
                            ![open[c].role].found = open[c].found]
    /\ Done(c)
    /\ UNCHANGED <<conflicts, attribute, calls, slipped>>

-----------------------------------------------------------------------------
(* Mutant of Simulated: whatever was simulated opens the gate.             *)
SimulatedSomething(r) == role[r].simulated # NoDraft

(* publishWithin compares the hash of the draft with the one recorded.     *)
Simulated(r) == role[r].simulated = role[r].draft

(* publishWithin locks the role's row and passes the gate of simulation.   *)
Publish(c, r) ==
    /\ RoleFree(r)
    /\ role[r].draft # NoDraft /\ Simulated(r) /\ role[r].found = 0
    /\ Call(c, "publish", r, NoDraft, FALSE, role[r].draft, "keys")
    /\ UNCHANGED <<role, conflicts, attribute, slipped>>

(* Mutant of NextKeys: in whatever order the draft names them.             *)
NextKeysUnsorted(missing) == missing

(* The advisory locks are taken over the sorted keys.                      *)
NextKeys(missing) ==
    {k \in missing : \E i \in 1..Len(SortedKeys) :
        /\ SortedKeys[i] = k
        /\ \A j \in 1..(i - 1) : SortedKeys[j] \notin missing}

KeysToTake(c) ==
    CASE open[c].does = "publish" /\ open[c].step = "keys" ->
            NextKeys(open[c].draft.keys \ open[c].keys)
      [] open[c].does = "create" /\ open[c].step = "keys" -> {open[c].key}
      [] OTHER -> {}

TakeKey(c) ==
    /\ \E k \in KeysToTake(c) :
          /\ KeyFree(k)
          /\ open' = [open EXCEPT
                ![c].keys = @ \cup {k},
                ![c].step = IF open[c].does = "create" THEN "formulas" ELSE @]
    /\ UNCHANGED <<role, conflicts, attribute, calls, slipped>>

(* Mutant of RowsRead: the predicate on self_editable stays in SQL.        *)
RowsReadEditable(named) == {k \in named : attribute[k].exists /\ attribute[k].selfEditable}

(* The statement sees the rows committed when it starts ...                *)
RowsRead(named) == {k \in named : attribute[k].exists}

ReadDefinitions(c) ==
    /\ open[c].does = "publish" /\ open[c].step = "keys"
    /\ open[c].draft.keys \subseteq open[c].keys
    /\ open' = [open EXCEPT ![c].rows = RowsRead(open[c].draft.keys), ![c].step = "rows"]
    /\ UNCHANGED <<role, conflicts, attribute, calls, slipped>>

(* ... and locks them one after the other, ordered by key.                 *)
RowsToLock(c) ==
    CASE open[c].does = "publish" /\ open[c].step = "rows" ->
            NextKeys(open[c].rows \ open[c].locked)
      [] open[c].does = "patch" /\ open[c].step = "rows" -> {open[c].key}
      [] OTHER -> {}

LockDefinition(c) ==
    /\ \E k \in RowsToLock(c) :
          /\ RowFree(k)
          /\ open' = [open EXCEPT
                ![c].locked = @ \cup {k},
                ![c].step = IF open[c].does = "publish" THEN @
                            ELSE IF open[c].on THEN "formulas" ELSE "commit"]
    /\ UNCHANGED <<role, conflicts, attribute, calls, slipped>>

Offenders(c) == {k \in open[c].locked : attribute[k].selfEditable}

(* The gate's last look, the new conditions and the commit.                *)
CommitPublish(c) ==
    /\ open[c].does = "publish" /\ open[c].step = "rows" /\ open[c].rows = open[c].locked
    /\ role' = IF Offenders(c) # {} THEN role
               ELSE [role EXCEPT ![open[c].role] =
                        Unsimulated([@ EXCEPT !.published = open[c].draft, !.draft = NoDraft])]
    /\ Done(c)
    /\ UNCHANGED <<conflicts, attribute, calls, slipped>>

-----------------------------------------------------------------------------
(* POST /attribute-definitions: only a self-editable one asks for the key. *)
CreateDefinition(c, k, on) ==
    /\ Call(c, "create", NoDraft, k, on, NoDraft, IF on THEN "keys" ELSE "insert")
    /\ UNCHANGED <<role, conflicts, attribute, slipped>>

(* PATCH: the row is locked, and the formulas are read when it is to be    *)
(* self-editable.                                                          *)
PatchDefinition(c, k, on) ==
    /\ attribute[k].exists
    /\ Call(c, "patch", NoDraft, k, on, NoDraft, "rows")
    /\ UNCHANGED <<role, conflicts, attribute, slipped>>

(* assertNoFormulaDependsOn reads what is published, and locks nothing.    *)
Names(k) == \E r \in RoleIds : k \in role[r].published.keys

ReadFormulas(c) ==
    /\ open[c].step = "formulas"
    /\ IF Names(open[c].key) THEN Done(c)
       ELSE Moved(c, IF open[c].does = "create" THEN "insert" ELSE "commit")
    /\ UNCHANGED <<role, conflicts, attribute, calls, slipped>>

InsertDefinition(c) ==
    /\ open[c].step = "insert"
    /\ \A d \in Callers : ~Inserting(d, open[c].key)
    /\ IF attribute[open[c].key].exists THEN Done(c) ELSE Moved(c, "commit")
    /\ UNCHANGED <<role, conflicts, attribute, calls, slipped>>

(* A publication that has read its rows and missed this key's.             *)
PastReading(k) ==
    \E d \in Callers : /\ open[d].does = "publish" /\ open[d].step = "rows"
                       /\ k \in open[d].draft.keys \ open[d].rows

CommitDefinition(c) ==
    /\ open[c].step = "commit"
    /\ LET k == open[c].key
       IN /\ attribute' = [attribute EXCEPT ![k] = [exists |-> TRUE, selfEditable |-> open[c].on]]
          /\ slipped' = IF open[c].does = "create" /\ PastReading(k)
                        THEN slipped \cup {k} ELSE slipped
    /\ Done(c)
    /\ UNCHANGED <<role, conflicts, calls>>

-----------------------------------------------------------------------------
PublicationInit ==
    /\ role = [r \in RoleIds |->
          [published |-> FirstFormula[r], draft |-> NoDraft, simulated |-> NoDraft, found |-> 0]]
    /\ conflicts \in SUBSET Pairs
    /\ attribute = [k \in AttributeKeys |-> [exists |-> k \in FirstKeys, selfEditable |-> FALSE]]
    /\ open = [c \in Callers |-> Nothing]
    /\ calls = 0
    /\ slipped = {}

PublicationNext ==
    \/ \E r \in RoleIds, f \in Formulas : SaveDraft(r, f)
    \/ \E pair \in Pairs : SetConflict(pair)
    \/ \E c \in Callers :
          \/ \E r \in RoleIds : Simulate(c, r) \/ Publish(c, r)
          \/ \E k \in AttributeKeys, on \in BOOLEAN :
                CreateDefinition(c, k, on) \/ PatchDefinition(c, k, on)
          \/ ReadConflicts(c) \/ ReadCounterpart(c) \/ RecordSimulation(c)
          \/ TakeKey(c) \/ ReadDefinitions(c) \/ LockDefinition(c) \/ CommitPublish(c)
          \/ ReadFormulas(c) \/ InsertDefinition(c) \/ CommitDefinition(c)

PublicationSpec == PublicationInit /\ [][PublicationNext]_pvars

-----------------------------------------------------------------------------
SelfEditableKeys == {k \in AttributeKeys : attribute[k].exists /\ attribute[k].selfEditable}

(* No published formula decides on an attribute its subjects may edit,     *)
(* whatever order publications and edits of definitions come in: at least  *)
(* for a key that was not defined while a publication naming it was past   *)
(* its reading of the definitions.                                         *)
SelfEditableDecidesNothing ==
    \A r \in RoleIds : role[r].published.keys \cap SelfEditableKeys \subseteq slipped

(* The same of every key.  The code breaks it: the advisory lock is for a  *)
(* key with no row and the row lock for a key with one, and a key that     *)
(* gets its row in between, by a create that is not self-editable and      *)
(* takes no advisory lock, is then patched past both.                      *)
NoSelfGrantedRole ==
    \A r \in RoleIds : role[r].published.keys \cap SelfEditableKeys = {}

(* The requests whose locks c waits for.                                   *)
WaitsFor(c) ==
    {d \in Callers \ {c} :
        \/ KeysToTake(c) # {} /\ KeysToTake(c) \subseteq open[d].keys
        \/ RowsToLock(c) # {} /\ RowsToLock(c) \subseteq open[d].locked
        \/ open[c].does = "simulate" /\ open[c].role \in RoleHeld(d)
        \/ open[c].step = "insert" /\ Inserting(d, open[c].key)}

(* Whoever waits for a lock gets it: no circle of requests wait for each   *)
(* other, whatever keys they share.                                        *)
NoCircleOfWaiters ==
    \A S \in (SUBSET Callers) \ {{}} : \E c \in S : WaitsFor(c) \cap S = {}

(* What is published was simulated as it stands after it was last saved,   *)
(* whoever saves and simulates in between.                                 *)
PublishedAsSimulated ==
    [][\A r \in RoleIds : role'[r].published # role[r].published =>
          role[r].simulated = role'[r].published /\ role[r].found = 0]_pvars

(* Those whom two roles in conflict both hold for: the standing report.    *)
Standing ==
    {held \in conflicts \X UNION {f.holders : f \in Formulas} :
        \A r \in held[1] : held[2] \in role[r].published.holders}

(* No publication adds a person held by two roles in conflict.  The code   *)
(* breaks it: the count it goes by is as old as the simulation, and what   *)
(* it was counted against may have been published or declared since.       *)
PublishCreatesNoViolation ==
    [][(\E r \in RoleIds : role'[r].published # role[r].published) =>
          Standing' \subseteq Standing]_pvars
=============================================================================
