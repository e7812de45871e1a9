-------------------------- MODULE AttributeMappings --------------------------
(***************************************************************************)
(* Which field of a person reaches which attribute of one target: the rows *)
(* of attribute_target_mappings, the editor that shows and writes them,    *)
(* the number of people an administrator has to acknowledge, and what a    *)
(* synchronization makes of the rows at a target that takes partial        *)
(* updates.  A request reads its row in one statement and writes it in     *)
(* another; a synchronization reads the rows to send in one statement and  *)
(* the names it manages in another.                                        *)
(***************************************************************************)
EXTENDS Naturals, FiniteSets

CONSTANTS
    Officers,          \* administrators at the editor
    Bearers,
    CustomFields,      \* attribute definitions
    CoreFields,        \* given_name, surname, title and department
    RemoteNames,             \* remote attribute names
    NoMapping, NoField,
    MaxMapEdits, MaxMapSyncs   \* bounds

ASSUME MappingAssumption ==
    /\ NoMapping \notin [remote : RemoteNames, enabled : BOOLEAN]
    /\ NoField \notin CustomFields \cup CoreFields
    /\ {MaxMapEdits, MaxMapSyncs} \subseteq Nat

VARIABLES
    map,        \* of every field, its row for the target
    defined,    \* the custom fields whose definition is active
    exporting,  \* is the target enabled for the people's organization
    holds,      \* who has a value of which field
    remote,     \* of every account, the field behind every remote name
    syncing,    \* the person being synchronized, and the rows read for it
    uptodate,      \* whose account was written after everything last changed
    editor,     \* what each officer's editor shows and waits for
    tx,         \* the request each officer has under way
    tally       \* changes and synchronizations so far

avars == <<map, defined, exporting, holds, remote, syncing, uptodate, editor, tx, tally>>
settings == <<defined, exporting, holds>>
targetside == <<remote, syncing, uptodate>>

MappedFields == CustomFields \cup CoreFields

NoTx == [op |-> "none"]
NoDialog == [shown |-> FALSE]
NoSync == [on |-> FALSE]

-----------------------------------------------------------------------------
(* listForTarget: the enabled rows of core fields and active definitions.  *)
Sending ==
    LET sent == {d \in CoreFields \cup defined : map[d] # NoMapping /\ map[d].enabled}
    IN [d \in sent |-> map[d].remote]

(* Mutant of AllRemoteNames: filtered as the rows to send are.               *)
ManagedIfSent == {map[d].remote : d \in {e \in MappedFields : map[e] # NoMapping /\ map[e].enabled}}

(* listAllRemoteNamesForTarget: the name of every row, enabled or not.     *)
AllRemoteNames == {map[d].remote : d \in {e \in MappedFields : map[e] # NoMapping}}

(* buildTargetAttributes: the field each name carries for a person; where  *)
(* two rows have one name, that of the row the database returned last.     *)
Payloads(u, rows) ==
    LET Carried(n) == {d \in DOMAIN rows \cap holds[u] : rows[d] = n}
    IN {f \in [RemoteNames -> MappedFields \cup {NoField}] :
          \A n \in RemoteNames : IF Carried(n) = {} THEN f[n] = NoField ELSE f[n] \in Carried(n)}

(* countExportImpact: who holds a value, where the target is enabled; of a *)
(* definition that is inactive as well.                                    *)
HolderCount(d) == IF exporting THEN Cardinality({u \in Bearers : d \in holds[u]}) ELSE 0

(* Nothing written so far follows from the rows as they are now.           *)
Outdated(people) ==
    /\ uptodate' = uptodate \ people
    /\ syncing' = IF syncing.on /\ syncing.of \in people THEN [syncing EXCEPT !.clean = FALSE] ELSE syncing
    /\ UNCHANGED remote

Changing == tally.changes < MaxMapEdits /\ tally' = [tally EXCEPT !.changes = @ + 1]

-----------------------------------------------------------------------------
(* The editor asks for the rows; whatever answer comes is shown, though it *)
(* was asked for before another that has come.                             *)
LoadRows(o) ==
    /\ Cardinality(editor[o].answers) < 2
    /\ editor' = [editor EXCEPT ![o].answers = @ \cup {map}]
    /\ UNCHANGED <<map, tx, tally>> /\ UNCHANGED <<settings, targetside>>

ShowRows(o) ==
    /\ \E rows \in editor[o].answers :
          editor' = [editor EXCEPT ![o].rows = rows, ![o].answers = @ \ {rows}]
    /\ UNCHANGED <<map, tx, tally>> /\ UNCHANGED <<settings, targetside>>

Unoccupied(o) == tx[o] = NoTx

Send(o, request) == Unoccupied(o) /\ Changing /\ tx' = [tx EXCEPT ![o] = request]

(* The buttons of a cell: it shows a row that is on, one that is off, or   *)
(* none.                                                                   *)
CellIs(o, d, state) ==
    state = IF editor[o].rows[d] = NoMapping THEN "unmapped"
            ELSE IF editor[o].rows[d].enabled THEN "on" ELSE "off"

Enabling(o, d, count) ==
    [op |-> IF CellIs(o, d, "unmapped") THEN "create" ELSE "switch", of |-> d, to |-> TRUE, ack |-> count]

(* guardedEnable: the number of people is asked for first; when it is not  *)
(* zero a dialog shows it, over the one that was open.                     *)
AskImpact(o, d) ==
    /\ Unoccupied(o) /\ ~CellIs(o, d, "on")
    /\ IF HolderCount(d) = 0
       THEN Send(o, Enabling(o, d, 0)) /\ UNCHANGED editor
       ELSE /\ editor' = [editor EXCEPT ![o].dialog =
                            [shown |-> TRUE, request |-> Enabling(o, d, HolderCount(d))]]
            /\ UNCHANGED <<tx, tally>>
    /\ UNCHANGED map /\ UNCHANGED <<settings, targetside>>

(* confirmPendingExport: the number sent is the number shown.              *)
ConfirmExport(o) ==
    /\ editor[o].dialog.shown /\ Send(o, editor[o].dialog.request)
    /\ editor' = [editor EXCEPT ![o].dialog = NoDialog]
    /\ UNCHANGED map /\ UNCHANGED <<settings, targetside>>

CancelExport(o) ==
    /\ editor[o].dialog.shown
    /\ editor' = [editor EXCEPT ![o].dialog = NoDialog]
    /\ UNCHANGED <<map, tx, tally>> /\ UNCHANGED <<settings, targetside>>

(* handleToggle: the cell shows off before the server has answered.        *)
SwitchOff(o, d) ==
    /\ CellIs(o, d, "on") /\ Send(o, [op |-> "switch", of |-> d, to |-> FALSE])
    /\ editor' = [editor EXCEPT ![o].rows[d].enabled = FALSE]
    /\ UNCHANGED map /\ UNCHANGED <<settings, targetside>>

RemoveRow(o, d) ==
    /\ ~CellIs(o, d, "unmapped") /\ Send(o, [op |-> "remove", of |-> d])
    /\ UNCHANGED <<map, editor>> /\ UNCHANGED <<settings, targetside>>

(* PATCH of the name, which the editor does not offer.                     *)
RenameRow(o, d, n) ==
    /\ map[d] # NoMapping /\ Send(o, [op |-> "rename", of |-> d, name |-> n])
    /\ UNCHANGED <<map, editor>> /\ UNCHANGED <<settings, targetside>>

-----------------------------------------------------------------------------
(* assertAcknowledged, in the transaction: nothing is asked when nobody    *)
(* has a value, and otherwise the number counted now.                      *)
Acknowledged(t) == HolderCount(t.of) = 0 \/ t.ack = HolderCount(t.of)

Pending(o, ops) == tx[o].op \in ops /\ "seen" \notin DOMAIN tx[o]

(* A request that has passed, with the row it has read.                    *)
Passed(t, row) == [f \in DOMAIN t \cup {"seen"} |-> IF f = "seen" THEN row ELSE t[f]]

(* A create counts; nothing is read of the row that may be there.          *)
CheckCreate(o) ==
    /\ Pending(o, {"create"})
    /\ tx' = [tx EXCEPT ![o] = IF Acknowledged(@) THEN Passed(@, NoMapping) ELSE NoTx]
    /\ UNCHANGED <<map, editor, tally>> /\ UNCHANGED <<settings, targetside>>

(* A change reads the row, and counts when it turns on what was read off.  *)
CheckChange(o) ==
    LET t == tx[o]
        turningOn == t.op = "switch" /\ t.to /\ ~map[t.of].enabled
        passes == map[t.of] # NoMapping /\ (turningOn => Acknowledged(t))
    IN /\ Pending(o, {"switch", "rename", "remove"})
       /\ tx' = [tx EXCEPT ![o] = IF passes THEN Passed(t, map[t.of]) ELSE NoTx]
       /\ UNCHANGED <<map, editor, tally>> /\ UNCHANGED <<settings, targetside>>

(* The write: a second row for a field is refused, a row that is gone      *)
(* meanwhile is not found.                                                 *)
RowAfter(t, n) ==
    IF map[t.of] = NoMapping
    THEN IF t.op = "create" THEN [remote |-> n, enabled |-> TRUE] ELSE NoMapping
    ELSE CASE t.op = "create" -> map[t.of]
           [] t.op = "remove" -> NoMapping
           [] t.op = "switch" -> [map[t.of] EXCEPT !.enabled = t.to]
           [] t.op = "rename" -> [map[t.of] EXCEPT !.remote = t.name]

(* The commit; the editor loads the rows again.                            *)
WriteRow(o, n) ==
    /\ "seen" \in DOMAIN tx[o]
    /\ map' = [map EXCEPT ![tx[o].of] = RowAfter(tx[o], n)]
    /\ tx' = [tx EXCEPT ![o] = NoTx]
    /\ editor' = [editor EXCEPT ![o].answers = @ \cup {map'}]
    /\ Outdated(Bearers)
    /\ UNCHANGED tally /\ UNCHANGED settings

-----------------------------------------------------------------------------
(* A definition is deactivated or comes back, the target is switched, a    *)
(* person's value comes or goes.                                           *)
SetDefinition(d) ==
    /\ Changing
    /\ defined' = IF d \in defined THEN defined \ {d} ELSE defined \cup {d}
    /\ Outdated(Bearers)
    /\ UNCHANGED <<map, exporting, holds, editor, tx>>

SetExporting ==
    /\ Changing
    /\ exporting' = ~exporting
    /\ UNCHANGED <<map, defined, holds, editor, tx>> /\ UNCHANGED targetside

EditHolding(u, d) ==
    /\ Changing
    /\ holds' = [holds EXCEPT ![u] = IF d \in @ THEN @ \ {d} ELSE @ \cup {d}]
    /\ Outdated({u})
    /\ UNCHANGED <<map, defined, exporting, editor, tx>>

-----------------------------------------------------------------------------
(* reconcileUser reads the rows to send...                                 *)
ReadSending(u) ==
    /\ ~syncing.on /\ exporting /\ tally.syncs < MaxMapSyncs
    /\ syncing' = [on |-> TRUE, of |-> u, rows |-> Sending, clean |-> TRUE]
    /\ tally' = [tally EXCEPT !.syncs = @ + 1]
    /\ UNCHANGED <<map, remote, uptodate, editor, tx>> /\ UNCHANGED settings

(* ...then the names it manages, and the connector patches the account:    *)
(* what is sent, and nothing under a managed name that is not sent.        *)
Patch ==
    LET u == syncing.of
    IN /\ syncing.on
       /\ \E payload \in Payloads(u, syncing.rows) :
             remote' = [remote EXCEPT ![u] =
                [n \in RemoteNames |-> IF payload[n] # NoField \/ n \in AllRemoteNames THEN payload[n] ELSE @[n]]]
       /\ uptodate' = IF syncing.clean THEN uptodate \cup {u} ELSE uptodate \ {u}
       /\ syncing' = NoSync
       /\ UNCHANGED <<map, editor, tx, tally>> /\ UNCHANGED settings

-----------------------------------------------------------------------------
MappingsInit ==
    /\ map = [d \in MappedFields |-> NoMapping]
    /\ defined = CustomFields /\ exporting = TRUE
    /\ holds \in {[u \in Bearers |-> CoreFields \cup who[u]] : who \in [Bearers -> SUBSET CustomFields]}
    /\ remote = [u \in Bearers |-> [n \in RemoteNames |-> NoField]]
    /\ syncing = NoSync /\ uptodate = {}
    /\ editor = [o \in Officers |-> [rows |-> map, answers |-> {}, dialog |-> NoDialog]]
    /\ tx = [o \in Officers |-> NoTx]
    /\ tally = [changes |-> 0, syncs |-> 0]

MappingsNext ==
    \/ \E o \in Officers :
          \/ LoadRows(o) \/ ShowRows(o) \/ ConfirmExport(o) \/ CancelExport(o)
          \/ CheckCreate(o) \/ CheckChange(o) \/ \E n \in RemoteNames : WriteRow(o, n)
          \/ \E d \in MappedFields :
                \/ AskImpact(o, d) \/ SwitchOff(o, d) \/ RemoveRow(o, d)
                \/ \E n \in RemoteNames : RenameRow(o, d, n)
    \/ \E d \in CustomFields : SetDefinition(d) \/ \E u \in Bearers : EditHolding(u, d)
    \/ SetExporting \/ Patch \/ \E u \in Bearers : ReadSending(u)

MappingsSpec == MappingsInit /\ [][MappingsNext]_avars

-----------------------------------------------------------------------------
(* attribute-target-mappings.repository.ts: a row that was switched off is *)
(* still read for its name, "so a mapping that just transitioned from      *)
(* enabled to disabled can still be found and its now-stale value          *)
(* ACTIVELY CLEARED".  Once a person is synchronized after the last        *)
(* change, whatever was switched off, deactivated or given up meanwhile,   *)
(* no name of a row shows anything but what an enabled row sends.          *)
DisabledIsCleared ==
    \A u \in uptodate : \A n \in {map[e].remote : e \in {f \in MappedFields : map[f] # NoMapping}} :
        LET d == remote[u][n]
        IN d # NoField => d \in DOMAIN Sending /\ Sending[d] = n /\ d \in holds[u]

(* ...and so under every name, if a rename "relocates values that already  *)
(* flow" (attribute-target-mappings.controller.ts): what was sent under    *)
(* the old name stays, as after a removal.                                 *)
RenamesRelocate ==
    \A u \in uptodate, n \in RemoteNames : remote[u][n] # NoField => n \in AllRemoteNames

(* attribute-target-mappings.controller.ts: a mapping is not enabled       *)
(* "without the number having been in front of someone".                   *)
EnablingIsAcknowledged ==
    [][\A d \in MappedFields :
         LET on == map[d] # NoMapping /\ map[d].enabled
             will == map'[d] # NoMapping /\ map'[d].enabled
         IN ~on /\ will /\ HolderCount(d) # 0 =>
               \E o \in Officers : tx[o].op # "none" /\ tx[o].of = d /\ tx[o].ack = HolderCount(d)]_avars
=============================================================================
