-------------------------------- MODULE Drift --------------------------------
(***************************************************************************)
(* The nightly pass over Keycloak: it walks everybody in every status, a   *)
(* page at a time, compares each with the account of that name, queues a   *)
(* repair for whoever differs, drains the outbox with a worker of its own  *)
(* and reports the accounts that are nobody's.  The API and its worker go  *)
(* on meanwhile, and somebody may change accounts at Keycloak.             *)
(***************************************************************************)
EXTENDS Integers, Sequences, FiniteSets

CONSTANTS
    Roster,        \* usernames, in the order a page lists them
    Tenants,       \* those of them in an organization with a realm of its own
    Profiles,      \* what an email or a name may be
    DriftKeys,      \* attributes mapped for Keycloak
    TeamNames,
    WalkStatuses,  \* ALL_USER_STATUSES, in order
    WalkPage,      \* PAGE_SIZE
    FirstStaff,    \* who may be there at first
    MaxDriftEdits, MaxMeddling   \* bounds

ASSUME DriftAssumption ==
    /\ WalkPage \in Nat \ {0} /\ {MaxDriftEdits, MaxMeddling} \subseteq Nat

VARIABLES
    staff,     \* users, with the groups they are in, nested ones included
    inMaster,  \* the accounts of the realm the pass looks at
    inTenant,  \* and of the tenants' realms
    repair,    \* who has an event pending
    pass,      \* the pass
    still,     \* nobody else changed anything since the pass began
    driftLeft  \* bounds

wvars == <<staff, inMaster, inTenant, repair, pass, still, driftLeft>>

Usernames == {Roster[i] : i \in DOMAIN Roster}
NoRow == [status |-> "absent"]
Missing == [enabled |-> FALSE, profile |-> "", attrs |-> {}, groups |-> {}, there |-> FALSE]
NoPass == [step |-> "idle"]

(* The account a row asks for.                                             *)
DesiredAccount(row) ==
    [enabled |-> row.status = "active", profile |-> row.profile, attrs |-> row.attrs,
     groups |-> row.groups, there |-> TRUE]

-----------------------------------------------------------------------------
(* The others.  Each change of a row queues its event.                     *)
Busy == still' = FALSE

ChangeRow(u, row) ==
    /\ driftLeft.edits > 0 /\ staff[u] # row
    /\ staff' = [staff EXCEPT ![u] = row]
    /\ repair' = repair \cup {u}
    /\ Busy
    /\ driftLeft' = [driftLeft EXCEPT !.edits = @ - 1]
    /\ UNCHANGED <<inMaster, inTenant, pass>>

(* The API's worker goes to the realm of the person's organization.        *)
Delivers(u) ==
    /\ u \in repair
    /\ IF u \in Tenants
       THEN /\ inTenant' = [inTenant EXCEPT ![u] = DesiredAccount(staff[u])]
            /\ UNCHANGED inMaster
       ELSE /\ inMaster' = [inMaster EXCEPT ![u] = DesiredAccount(staff[u])]
            /\ UNCHANGED inTenant
    /\ repair' = repair \ {u}
    /\ Busy
    /\ UNCHANGED <<staff, pass, driftLeft>>

(* Somebody changes, creates or deletes an account at Keycloak.            *)
Meddles(u, a) ==
    /\ driftLeft.meddling > 0 /\ inMaster[u] # a
    /\ inMaster' = [inMaster EXCEPT ![u] = a]
    /\ Busy
    /\ driftLeft' = [driftLeft EXCEPT !.meddling = @ - 1]
    /\ UNCHANGED <<staff, inTenant, repair, pass>>

-----------------------------------------------------------------------------
(* The pass.                                                               *)
StartPass ==
    /\ pass = NoPass
    /\ pass' = [step |-> "page", status |-> 1, offset |-> 0, rows |-> << >>, at |-> 1,
                seen |-> Missing, local |-> {}, extras |-> {}]
    /\ still' = (repair = {})
    /\ UNCHANGED <<staff, inMaster, inTenant, repair, driftLeft>>

(* The people of C, in the order of the listing.                           *)
Listed(C) ==
    LET upTo[i \in 0..Len(Roster)] ==
          IF i = 0 THEN << >>
          ELSE IF Roster[i] \in C THEN Append(upTo[i - 1], Roster[i]) ELSE upTo[i - 1]
    IN upTo[Len(Roster)]

OfStatus(st) == Listed({u \in Usernames : staff[u].status = st})

WalkedPage(st, offset) ==
    LET all == OfStatus(st)
        last == IF offset + WalkPage < Len(all) THEN offset + WalkPage ELSE Len(all)
    IN [i \in 1..(last - offset) |-> [name |-> all[offset + i], row |-> staff[all[offset + i]]]]

(* The next status, or the drain after the last.                           *)
NextDriftStatus ==
    IF pass.status < Len(WalkStatuses)
    THEN [pass EXCEPT !.step = "page", !.status = @ + 1, !.offset = 0]
    ELSE [pass EXCEPT !.step = "drain"]

ReadDriftPage ==
    /\ pass.step = "page"
    /\ LET rows == WalkedPage(WalkStatuses[pass.status], pass.offset)
       IN pass' = IF rows = << >> THEN NextDriftStatus
                  ELSE [pass EXCEPT !.step = "find", !.rows = rows, !.at = 1]
    /\ UNCHANGED <<staff, inMaster, inTenant, repair, still, driftLeft>>

Walked == pass.rows[pass.at]

(* After a row: the next one, the next page, or the next status.           *)
DriftOnward ==
    IF pass.at < Len(pass.rows) THEN [pass EXCEPT !.step = "find", !.at = @ + 1]
    ELSE IF Len(pass.rows) < WalkPage THEN NextDriftStatus
    ELSE [pass EXCEPT !.step = "page", !.offset = @ + WalkPage]

(* enqueueRepair: the audit record and the event, in one transaction.      *)
FindAccount ==
    /\ pass.step = "find"
    /\ LET a == inMaster[Walked.name]
       IN IF a.there
          THEN pass' = [pass EXCEPT !.step = "compare", !.seen = a] /\ UNCHANGED repair
          ELSE pass' = DriftOnward /\ repair' = repair \cup {Walked.name}
    /\ UNCHANGED <<staff, inMaster, inTenant, still, driftLeft>>

(* Mutant of AttrsEqual: an attribute that should be gone is overlooked.   *)
AttrsInclude(seen, wanted) == wanted \subseteq seen

AttrsEqual(seen, wanted) == seen = wanted

(* detectDrift: the profile as the page said, the groups as they are now.  *)
DriftReasons ==
    LET row == Walked.row
    IN {r \in {"enabled", "profile", "attributes", "groups"} :
          CASE r = "enabled" -> pass.seen.enabled # (row.status = "active")
            [] r = "profile" -> pass.seen.profile # row.profile
            [] r = "attributes" -> ~AttrsEqual(pass.seen.attrs, row.attrs)
            [] r = "groups" -> inMaster[Walked.name].groups # staff[Walked.name].groups}

(* The account's groups are asked for by name: an account that went since  *)
(* it was found ends the pass.                                             *)
Compare ==
    /\ pass.step = "compare"
    /\ IF ~inMaster[Walked.name].there THEN pass' = NoPass /\ UNCHANGED repair
       ELSE /\ pass' = DriftOnward
            /\ repair' = IF DriftReasons # {} THEN repair \cup {Walked.name} ELSE repair
    /\ UNCHANGED <<staff, inMaster, inTenant, still, driftLeft>>

(* drain: this worker has no client per realm, so everybody's account is   *)
(* written where the pass looks.                                           *)
DrainOne ==
    /\ pass.step = "drain"
    /\ \E u \in repair :
          /\ inMaster' = [inMaster EXCEPT ![u] = DesiredAccount(staff[u])]
          /\ repair' = repair \ {u}
    /\ UNCHANGED <<staff, inTenant, pass, still, driftLeft>>

Drained ==
    /\ pass.step = "drain" /\ repair = {}
    /\ pass' = [pass EXCEPT !.step = "extras", !.local = {u \in Usernames : staff[u] # NoRow}]
    /\ UNCHANGED <<staff, inMaster, inTenant, repair, still, driftLeft>>

(* detectKeycloakOnly: reported, never repaired.                           *)
DetectKeycloakOnly ==
    /\ pass.step = "extras"
    /\ pass' = [pass EXCEPT !.step = "report",
                            !.extras = {u \in Usernames : inMaster[u].there} \ pass.local]
    /\ UNCHANGED <<staff, inMaster, inTenant, repair, still, driftLeft>>

EndPass ==
    /\ pass.step = "report"
    /\ pass' = NoPass
    /\ UNCHANGED <<staff, inMaster, inTenant, repair, still, driftLeft>>

-----------------------------------------------------------------------------
WalkedRows ==
    [status : {WalkStatuses[i] : i \in DOMAIN WalkStatuses}, profile : Profiles,
     attrs : SUBSET DriftKeys, groups : SUBSET TeamNames]
Accounts ==
    {Missing} \cup
    [enabled : BOOLEAN, profile : Profiles, attrs : SUBSET DriftKeys,
     groups : SUBSET TeamNames, there : {TRUE}]

ASSUME RosterAssumption ==
    /\ Roster \in Seq(Usernames)
    /\ WalkStatuses \in Seq(STRING) \ {<< >>}
    /\ \A i \in DOMAIN WalkStatuses : WalkStatuses[i] # "absent"
    /\ FirstStaff \subseteq [Usernames -> WalkedRows \cup {NoRow}]

DriftInit ==
    /\ staff \in FirstStaff
    /\ inMaster = [u \in Usernames |->
          IF u \in Tenants \/ staff[u] = NoRow THEN Missing ELSE DesiredAccount(staff[u])]
    /\ inTenant = [u \in Usernames |->
          IF u \in Tenants /\ staff[u] # NoRow THEN DesiredAccount(staff[u]) ELSE Missing]
    /\ repair = {}
    /\ pass = NoPass
    /\ still = FALSE
    /\ driftLeft = [edits |-> MaxDriftEdits, meddling |-> MaxMeddling]

DriftNext ==
    \/ \E u \in Usernames :
          \/ \E row \in WalkedRows : ChangeRow(u, row)
          \/ \E a \in Accounts : Meddles(u, a)
          \/ Delivers(u)
    \/ StartPass \/ ReadDriftPage \/ FindAccount \/ Compare \/ DrainOne \/ Drained
    \/ DetectKeycloakOnly \/ EndPass

DriftSpec == DriftInit /\ [][DriftNext]_wvars

-----------------------------------------------------------------------------
(* A pass beside which nothing changed leaves every account of its realm   *)
(* as the database wants it, whatever was done to it at Keycloak before,   *)
(* and what it reports as nobody's is nobody's.                            *)
QuietPassesRepair ==
    pass.step = "report" /\ still =>
        /\ \A u \in Usernames \ Tenants :
              staff[u] # NoRow => inMaster[u] = DesiredAccount(staff[u])
        /\ \A u \in pass.extras : staff[u] = NoRow

(* A person of an organization with its own realm has no account in        *)
(* another.  The code breaks it: the pass misses the account in the realm  *)
(* it looks at, and its own worker creates it there.                       *)
PeopleStayInTheirRealm == \A u \in Tenants : ~inMaster[u].there

(* What a pass reports as nobody's is nobody's.  The code breaks it beside *)
(* a person who was hired and delivered between its two readings.          *)
ExtrasAreNobodys == pass.step = "report" => \A u \in pass.extras : staff[u] = NoRow
=============================================================================
