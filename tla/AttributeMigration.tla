-------------------------- MODULE AttributeMigration --------------------------
(***************************************************************************)
(* One attribute changes its data type: an administrator previews what     *)
(* would happen to every stored value, approves that preview by its hash,  *)
(* and the migration converts the values in one transaction while profiles *)
(* are edited and the definition patched on other connections.             *)
(*                                                                         *)
(* A stored value is a JSON type and a text.  Texts stand for what the     *)
(* data types tell apart: plain decimals (and the number each is read as), *)
(* calendar days, timestamps and the options of the enum.                  *)
(***************************************************************************)
EXTENDS Integers, FiniteSets

CONSTANTS
    Texts,
    Decimals,          \* the texts that are plain decimal numbers
    Shown,             \* the text JavaScript shows for each of those numbers
    Days, Timestamps,  \* the texts ISO-8601 allows
    Options,           \* the enum's options
    DataTypes,
    Holders,           \* users: numbered as their ids sort
    NoValue,
    MigrationPercent, MigrationFloor,
    MaxEdits           \* bound: profiles edited and definitions patched

ASSUME MigrationAssumption ==
    /\ Decimals \cup Days \cup Timestamps \cup Options \subseteq Texts
    /\ Days \cap Timestamps = {}
    /\ Shown \in [Decimals -> Decimals]
    /\ \A t \in Decimals : Shown[Shown[t]] = Shown[t]
    /\ DataTypes \subseteq {"string", "number", "date", "enum"}
    /\ IsFiniteSet(Holders) /\ Holders \subseteq Nat
    /\ {MigrationPercent, MigrationFloor, MaxEdits} \subseteq Nat

VARIABLES
    definition,   \* the attribute's row
    stored,       \* what each user's attributes hold under its key
    walk,         \* the preview or the migration under way
    approved,     \* the preview the administrator commits
    profile,      \* an edit of one profile, between its check and its write
    edits

mvars == <<definition, stored, walk, approved, profile, edits>>

Values ==
    {[js |-> "string", text |-> t] : t \in Texts}
    \cup {[js |-> "number", text |-> Shown[t]] : t \in Decimals}

-----------------------------------------------------------------------------
(* convertValue: NoValue when the value does not convert.                  *)
Convert(v, from, to) ==
    IF from = to THEN v
    ELSE CASE to = "string" -> [js |-> "string", text |-> v.text]
           [] to = "number" /\ v.text \in Decimals -> [js |-> "number", text |-> Shown[v.text]]
           [] to = "date" /\ v.text \in Days \cup Timestamps -> [js |-> "string", text |-> v.text]
           [] to = "enum" /\ v.text \in Options -> [js |-> "string", text |-> v.text]
           [] OTHER -> NoValue

Converts(v, from, to) == Convert(v, from, to) # NoValue

(* Mutant of Reversible: that it converts back to something is enough.     *)
ReversibleSomehow(v, from, to) ==
    Converts(v, from, to) /\ Converts(Convert(v, from, to), to, from)

(* isReversibleConversion                                                  *)
Reversible(v, from, to) ==
    /\ Converts(v, from, to)
    /\ Convert(Convert(v, from, to), to, from) = v

(* buildFieldSchema: what a profile may hold under the definition.         *)
Accepts(type, v) ==
    CASE type = "number" -> v.js = "number"
      [] type = "string" -> v.js = "string"
      [] type = "date" -> v.js = "string" /\ v.text \in Days
      [] type = "enum" -> v.js = "string" /\ v.text \in Options

-----------------------------------------------------------------------------
AtRest ==
    [does |-> "nothing", from |-> "string", to |-> "string", seen |-> [u \in {} |-> NoValue],
     after |-> -1, sensitive |-> FALSE, forced |-> FALSE, step |-> "-", done |-> {}]

DefinitionFree == ~(walk.does = "commit" /\ walk.step \in {"walk", "check", "apply"})

UserFree(u) == ~(walk.does = "commit" /\ u \in walk.done)

NoProfile == [user |-> 0, value |-> NoValue, withhold |-> FALSE, open |-> FALSE]

(* preview reads the definition, then page by page who holds a value: no   *)
(* transaction around them.                                                *)
Preview(to) ==
    /\ walk.does = "nothing" /\ to # definition.type
    /\ walk' = [AtRest EXCEPT !.does = "preview", !.from = definition.type, !.to = to,
                              !.step = "walk"]
    /\ UNCHANGED <<definition, stored, approved, profile, edits>>

(* commit locks the definition and plans again within its transaction; the *)
(* change must be the one previewed.                                       *)
StartCommit(force) ==
    /\ walk.does = "nothing" /\ approved.step = "approved"
    /\ approved.to # definition.type
    /\ walk' = [AtRest EXCEPT !.does = "commit", !.from = definition.type, !.to = approved.to,
                              !.sensitive = definition.sensitive, !.forced = force,
                              !.step = "walk"]
    /\ UNCHANGED <<definition, stored, approved, profile, edits>>

(* walkHolders: the next user, past the last one, who holds a value.       *)
Ahead == {u \in Holders : u > walk.after /\ stored[u] # NoValue}

WalkHolders ==
    /\ walk.step = "walk"
    /\ IF Ahead = {} THEN walk' = [walk EXCEPT !.step = "check"]
       ELSE LET u == CHOOSE x \in Ahead : \A y \in Ahead : x <= y
            IN walk' = [walk EXCEPT !.after = u,
                          !.seen = [x \in DOMAIN @ \cup {u} |->
                                       IF x = u THEN stored[u] ELSE walk.seen[x]]]
    /\ UNCHANGED <<definition, stored, approved, profile, edits>>

Changed(w) ==
    {u \in DOMAIN w.seen :
        /\ Converts(w.seen[u], w.from, w.to)
        /\ Convert(w.seen[u], w.from, w.to) # w.seen[u]}

(* evaluateBlastRadius                                                     *)
Trips(changed, population) ==
    /\ changed > MigrationFloor
    /\ population > 0 /\ changed * 100 > MigrationPercent * population

(* The preview is shown, and the administrator approves it.                *)
FinishPreview ==
    /\ walk.does = "preview" /\ walk.step = "check"
    /\ approved' = [walk EXCEPT !.step = "approved"]
    /\ walk' = AtRest
    /\ UNCHANGED <<definition, stored, profile, edits>>

(* Mutant of SameHash: the hash is of the change alone.                    *)
SameChange == walk.from = approved.from /\ walk.to = approved.to

(* The hash is of the definition, the change and every value seen.         *)
SameHash ==
    /\ walk.from = approved.from /\ walk.to = approved.to
    /\ walk.seen = approved.seen

Allowed ==
    /\ walk.sensitive => \A u \in Changed(walk) : Reversible(walk.seen[u], walk.from, walk.to)
    /\ SameHash
    /\ \A u \in DOMAIN walk.seen : Converts(walk.seen[u], walk.from, walk.to)
    /\ definition.default = NoValue \/ Converts(definition.default, walk.from, walk.to)
    /\ Trips(Cardinality(Changed(walk)), Cardinality(DOMAIN walk.seen)) => walk.forced

CheckCommit ==
    /\ walk.does = "commit" /\ walk.step = "check"
    /\ walk' = IF Allowed THEN [walk EXCEPT !.step = "apply"] ELSE AtRest
    /\ UNCHANGED <<definition, stored, approved, profile, edits>>

(* Mutant of HoldsStill: the update of a value does not ask for the old.   *)
HoldsAnything(u) == TRUE

(* applyOne: UPDATE ... WHERE the value is still the one planned for.      *)
HoldsStill(u) == stored[u] = walk.seen[u]

(* It writes each user's row and keeps it locked to the end; a row that    *)
(* moved on rolls everything back.                                         *)
ApplyOne ==
    /\ walk.step = "apply"
    /\ \E u \in Changed(walk) \ walk.done :
          walk' = IF HoldsStill(u) THEN [walk EXCEPT !.done = @ \cup {u}] ELSE AtRest
    /\ UNCHANGED <<definition, stored, approved, profile, edits>>

CommitMigration ==
    /\ walk.step = "apply" /\ walk.done = Changed(walk)
    /\ stored' = [u \in Holders |->
          IF u \in walk.done THEN Convert(walk.seen[u], walk.from, walk.to) ELSE stored[u]]
    /\ definition' = [definition EXCEPT !.type = walk.to,
          !.default = IF @ = NoValue THEN @ ELSE Convert(@, walk.from, walk.to)]
    /\ walk' = AtRest
    /\ UNCHANGED <<approved, profile, edits>>

-----------------------------------------------------------------------------
(* PATCH of the definition: the row is locked for the whole of it.         *)
PatchSensitive ==
    /\ edits < MaxEdits /\ DefinitionFree
    /\ definition' = [definition EXCEPT !.sensitive = ~@]
    /\ edits' = edits + 1
    /\ UNCHANGED <<stored, walk, approved, profile>>

PatchDefault(v) ==
    /\ edits < MaxEdits /\ DefinitionFree
    /\ v # definition.default /\ (v # NoValue => Accepts(definition.type, v))
    /\ definition' = [definition EXCEPT !.default = v]
    /\ edits' = edits + 1
    /\ UNCHANGED <<stored, walk, approved, profile>>

(* PATCH of a profile, by an administrator or by its owner: the            *)
(* definitions are read before the transaction, the payload is checked     *)
(* against them ...                                                        *)
CheckProfile(u, v) ==
    /\ edits < MaxEdits /\ ~profile.open
    /\ v # stored[u] /\ (v # NoValue => Accepts(definition.type, v))
    /\ profile' = [user |-> u, value |-> v, withhold |-> definition.sensitive, open |-> TRUE]
    /\ edits' = edits + 1
    /\ UNCHANGED <<definition, stored, walk, approved>>

(* ... and the row is locked and written in it.                            *)
WriteProfile ==
    /\ profile.open /\ UserFree(profile.user)
    /\ stored' = [stored EXCEPT ![profile.user] = profile.value]
    /\ profile' = NoProfile
    /\ UNCHANGED <<definition, walk, approved, edits>>

-----------------------------------------------------------------------------
MigrationInit ==
    /\ definition \in [type : DataTypes, sensitive : BOOLEAN, default : {NoValue}]
    /\ stored \in [Holders -> Values \cup {NoValue}]
    /\ \A u \in Holders : stored[u] # NoValue => Accepts(definition.type, stored[u])
    /\ walk = AtRest /\ approved = AtRest
    /\ profile = NoProfile
    /\ edits = 0

MigrationNext ==
    \/ \E to \in DataTypes : Preview(to)
    \/ \E force \in BOOLEAN : StartCommit(force)
    \/ WalkHolders \/ FinishPreview \/ CheckCommit \/ ApplyOne \/ CommitMigration
    \/ PatchSensitive
    \/ \E v \in Values \cup {NoValue} :
          PatchDefault(v) \/ \E u \in Holders : CheckProfile(u, v)
    \/ WriteProfile

MigrationSpec == MigrationInit /\ [][MigrationNext]_mvars

-----------------------------------------------------------------------------
Migrates == definition'.type # definition.type

(* Every value a migration overwrites is the one the administrator saw in  *)
(* the preview, and it becomes what that value converts to: no edit made   *)
(* meanwhile is lost.                                                      *)
OnlyApprovedValuesChange ==
    [][Migrates => \A u \in Holders : stored'[u] # stored[u] =>
          /\ u \in DOMAIN approved.seen /\ stored[u] = approved.seen[u]
          /\ stored'[u] = Convert(stored[u], definition.type, definition'.type)]_mvars

(* A sensitive attribute's old values are recorded nowhere, so whatever is *)
(* done to them can be undone from the new values alone.                   *)
SensitiveValuesComeBack ==
    [][Migrates /\ definition.sensitive => \A u \in Holders :
          stored'[u] # NoValue /\ stored'[u] # stored[u] =>
              Convert(stored'[u], definition'.type, definition.type) = stored[u]]_mvars

(* What a migration leaves behind is what the new type accepts.  The code  *)
(* breaks it: a timestamp converts to a date, and a date's schema refuses  *)
(* it the next time the profile is saved.                                  *)
MigratedValuesValidate ==
    [][Migrates => \A u \in DOMAIN approved.seen :
          stored'[u] # stored[u] \/ stored[u] = approved.seen[u] =>
              Accepts(definition'.type, stored'[u])]_mvars

(* Every stored value is one its definition's type accepts.  The code      *)
(* breaks it: a profile checked against the old type is written under the  *)
(* new one.                                                                *)
ValuesFitTheirType ==
    \A u \in Holders : stored[u] # NoValue => Accepts(definition.type, stored[u])

(* The audit row of a profile's edit withholds what is sensitive when it   *)
(* is written.  The code breaks it: the flag is as old as the check.       *)
EditorsWithhold == [][WriteProfile /\ definition.sensitive => profile.withhold]_mvars
=============================================================================
