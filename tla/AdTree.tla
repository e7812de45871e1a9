------------------------------- MODULE AdTree -------------------------------
(***************************************************************************)
(* Org units and people in Active Directory, where a unit is a container   *)
(* and a rename of a container takes everything below it along.  The       *)
(* database rewrites the paths of a renamed unit and its descendants at    *)
(* once and queues one event, which carries the old path; a worker reads   *)
(* the new one when it gets to the event.  Events of different rows keep   *)
(* no order.  Each replica keeps one connection and remembers which        *)
(* containers it has seen on it.                                           *)
(***************************************************************************)
EXTENDS Naturals, Sequences, FiniteSets, SequencesExt

CONSTANTS
    Ous, RootOu,      \* org units, and the organization's own
    ParentOf,         \* the unit above each other unit
    FirstName,        \* the names of the units there are at first
    Rdns, NoName,
    Staff, FirstUnit,
    Replicas,
    NoPath,
    CreateMissingOrgUnits,   \* connector_targets.config.createMissingOrgUnits
    MaxTreeChanges, MaxTreeFaults    \* bounds

ASSUME AdTreeAssumption ==
    /\ RootOu \in Ous /\ ParentOf \in [Ous \ {RootOu} -> Ous]
    /\ FirstName \in [Ous -> Rdns \cup {NoName}] /\ FirstName[RootOu] # NoName
    /\ FirstUnit \in [Staff -> Ous]
    /\ CreateMissingOrgUnits \in BOOLEAN
    /\ MaxTreeChanges \in Nat /\ MaxTreeFaults \in Nat

VARIABLES
    label,        \* the unit's label, NoName while there is no such unit
    workplace,        \* each person's unit
    unitEvents,  \* each unit's queued events: the old path of a rename, else NoPath
    personEvents,\* people with a queued event
    ous,         \* the containers Active Directory has, as paths
    container,        \* the container of each person's account, or NoPath
    known,       \* knownOrgUnitDns of each replica's connection
    doing,       \* what each replica is doing
    past,        \* history: the paths units have had
    entangled,   \* history: a unit was given a path some unit had before, or
                 \*          the tree changed again before the last change was delivered
    left

avars == <<label, workplace, unitEvents, personEvents, ous, container, known, doing, past, entangled, left>>

Free == [what |-> "nothing"]
Exists(u) == label[u] # NoName

(* The materialised path of a unit, from the organization's root.          *)
PathOf(u) ==
    LET up[v \in Ous, n \in 0..Cardinality(Ous)] ==
          IF v = RootOu \/ n = 0 THEN <<label[v]>> ELSE Append(up[ParentOf[v], n - 1], label[v])
    IN up[u, Cardinality(Ous)]

Above(p) == Front(p)

Paths == UNION {[1..n -> Rdns] : n \in 1..Cardinality(Ous)}

AdTreeTypeOK ==
    /\ label \in [Ous -> Rdns \cup {NoName}]
    /\ workplace \in [Staff -> Ous]
    /\ \A u \in Ous : \A i \in DOMAIN unitEvents[u] : unitEvents[u][i] \in Paths \cup {NoPath}
    /\ personEvents \subseteq Staff
    /\ ous \subseteq Paths
    /\ container \in [Staff -> Paths \cup {NoPath}]
    /\ known \in [Replicas -> SUBSET Paths]
    /\ \A r \in Replicas : doing[r].what \in {"nothing", "person", "unit"}

-----------------------------------------------------------------------------
(* The API.                                                                *)

Siblings(u) == {v \in Ous \ {u, RootOu} : Exists(v) /\ ParentOf[v] = ParentOf[u]}

CanBeNamed(u, l) == \A v \in Siblings(u) : label[v] # l

Given(p) ==
    /\ past' = past \cup {p}
    /\ entangled' = (entangled \/ p \in past \/ \E u \in Ous : unitEvents[u] # << >>)

SpendTreeChange == left.changes > 0 /\ left' = [left EXCEPT !.changes = @ - 1]

CreateOu(u) ==
    /\ SpendTreeChange
    /\ ~Exists(u) /\ Exists(ParentOf[u])
    /\ \E l \in Rdns :
         /\ CanBeNamed(u, l)
         /\ label' = [label EXCEPT ![u] = l]
         /\ Given(Append(PathOf(ParentOf[u]), l))
    /\ unitEvents' = [unitEvents EXCEPT ![u] = Append(@, NoPath)]
    /\ UNCHANGED <<workplace, personEvents, ous, container, known, doing>>

RenameOu(u) ==
    /\ SpendTreeChange
    /\ u # RootOu /\ Exists(u)
    /\ \E l \in Rdns \ {label[u]} :
         /\ CanBeNamed(u, l)
         /\ label' = [label EXCEPT ![u] = l]
         /\ Given(Append(PathOf(ParentOf[u]), l))
    /\ unitEvents' = [unitEvents EXCEPT ![u] = Append(@, PathOf(u))]
    /\ UNCHANGED <<workplace, personEvents, ous, container, known, doing>>

(* A transfer, or any other edit of the person's row.                      *)
TransferPerson(p) ==
    /\ SpendTreeChange
    /\ \E u \in Ous : Exists(u) /\ workplace' = [workplace EXCEPT ![p] = u]
    /\ personEvents' = personEvents \cup {p}
    /\ UNCHANGED <<label, unitEvents, ous, container, known, doing, past, entangled>>

-----------------------------------------------------------------------------
(* A replica's connector, request by request.                              *)

(* Mutant of Forgotten: the cache outlives the connection.                 *)
NothingForgotten(r) == known

(* getClient after discardClient: a new connection starts with an empty    *)
(* cache.                                                                  *)
Forgotten(r) == [known EXCEPT ![r] = {}]

Busy(what, on) == \E r \in Replicas : doing[r].what = what /\ doing[r].on = on

(* reconcileUser: the row, and with it the unit's path, is read under the  *)
(* person's lock.                                                          *)
ClaimPerson(r, p) ==
    /\ doing[r] = Free /\ p \in personEvents /\ ~Busy("person", p)
    /\ doing' = [doing EXCEPT ![r] =
          [what |-> "person", on |-> p, path |-> PathOf(workplace[p]), prev |-> NoPath,
           level |-> 1, upto |-> Len(PathOf(workplace[p]))]]
    /\ personEvents' = personEvents \ {p}
    /\ UNCHANGED <<label, workplace, unitEvents, ous, container, known, past, entangled, left>>

(* Mutant of PreviousPath: the worker does not hand the old path on.       *)
NoPreviousPath(u) == NoPath

(* readPreviousPath of the event at the head of the unit's queue.          *)
PreviousPath(u) == Head(unitEvents[u])

(* reconcileOrgUnit and the first request of applyOrgUnit: a container at  *)
(* the old path is moved, so its new parents are ensured first; otherwise  *)
(* the whole new path is.                                                  *)
ClaimUnit(r, u) ==
    /\ doing[r] = Free /\ unitEvents[u] # << >> /\ ~Busy("unit", u)
    /\ LET prev == PreviousPath(u)
           move == prev # NoPath /\ prev # PathOf(u) /\ prev \in ous
       IN doing' = [doing EXCEPT ![r] =
            [what |-> "unit", on |-> u, path |-> PathOf(u), prev |-> IF move THEN prev ELSE NoPath,
             level |-> 1, upto |-> IF move THEN Len(PathOf(u)) - 1 ELSE Len(PathOf(u))]]
    /\ UNCHANGED <<label, workplace, unitEvents, personEvents, ous, container, known, past, entangled, left>>

Held(p) == p = << >> \/ p \in ous

(* ensureOrgUnitChain, one level: a container remembered is not looked for;*)
(* one that is missing is created.                                         *)
EnsureLevel(r) ==
    LET at == SubSeq(doing[r].path, 1, doing[r].level) IN
    /\ doing[r] # Free /\ doing[r].level <= doing[r].upto
    /\ \/ at \in known[r] /\ UNCHANGED <<ous, known>>
       \/ /\ at \notin known[r] /\ at \in ous
          /\ known' = [known EXCEPT ![r] = @ \cup {at}] /\ UNCHANGED ous
       \/ /\ at \notin known[r] /\ at \notin ous /\ CreateMissingOrgUnits /\ Held(Above(at))
          /\ ous' = ous \cup {at}
          /\ known' = [known EXCEPT ![r] = @ \cup {at}]
    /\ doing' = [doing EXCEPT ![r].level = @ + 1]
    /\ UNCHANGED <<label, workplace, unitEvents, personEvents, container, past, entangled, left>>

Ensured(r) == doing[r] # Free /\ doing[r].level > doing[r].upto

(* apply: the account is added under its unit's container, or moved there. *)
Place(r) ==
    /\ Ensured(r) /\ doing[r].what = "person" /\ Held(doing[r].path)
    /\ container' = [container EXCEPT ![doing[r].on] = doing[r].path]
    /\ doing' = [doing EXCEPT ![r] = Free]
    /\ UNCHANGED <<label, workplace, unitEvents, personEvents, ous, known, past, entangled, left>>

Rebased(p, from, to) == IF IsPrefix(from, p) THEN to \o SubSeq(p, Len(from) + 1, Len(p)) ELSE p

CanMove(from, to) == from \in ous /\ to \notin ous /\ Held(Above(to))

(* modifyDN: the container and everything below it.                        *)
MoveUnit(r) ==
    LET from == doing[r].prev  to == doing[r].path IN
    /\ Ensured(r) /\ doing[r].what = "unit" /\ from # NoPath
    /\ CanMove(from, to)
    /\ ous' = {Rebased(p, from, to) : p \in ous}
    /\ container' = [p \in Staff |-> IF container[p] = NoPath THEN NoPath ELSE Rebased(container[p], from, to)]
    /\ known' = [known EXCEPT ![r] = (@ \ {from}) \cup {to}]
    /\ unitEvents' = [unitEvents EXCEPT ![doing[r].on] = Tail(@)]
    /\ doing' = [doing EXCEPT ![r] = Free]
    /\ UNCHANGED <<label, workplace, personEvents, past, entangled, left>>

UnitEnsured(r) ==
    /\ Ensured(r) /\ doing[r].what = "unit" /\ doing[r].prev = NoPath
    /\ unitEvents' = [unitEvents EXCEPT ![doing[r].on] = Tail(@)]
    /\ doing' = [doing EXCEPT ![r] = Free]
    /\ UNCHANGED <<label, workplace, personEvents, ous, container, known, past, entangled, left>>

(* withClient: any error drops the connection; the event goes back.        *)
Throw(r) ==
    /\ known' = Forgotten(r)
    /\ personEvents' = IF doing[r].what = "person" THEN personEvents \cup {doing[r].on} ELSE personEvents
    /\ doing' = [doing EXCEPT ![r] = Free]
    /\ UNCHANGED <<label, workplace, unitEvents, ous, container, past, entangled>>

(* Active Directory refuses: no such parent, no such object, already there; *)
(* or the connector does: the container is missing and may not be created. *)
AdRefused(r) ==
    /\ doing[r] # Free
    /\ LET j == doing[r]
           at == SubSeq(j.path, 1, j.level)
       IN \/ /\ j.level <= j.upto /\ at \notin known[r] \cup ous
             /\ ~CreateMissingOrgUnits \/ ~Held(Above(at))
          \/ Ensured(r) /\ j.what = "person" /\ ~Held(j.path)
          \/ Ensured(r) /\ j.what = "unit" /\ j.prev # NoPath /\ ~CanMove(j.prev, j.path)
    /\ Throw(r)
    /\ UNCHANGED left

(* The connection breaks or a request times out.                           *)
RequestFails(r) ==
    /\ doing[r] # Free /\ left.faults > 0
    /\ left' = [left EXCEPT !.faults = @ - 1]
    /\ Throw(r)

WorkerStep(r) ==
    \/ EnsureLevel(r) \/ Place(r) \/ MoveUnit(r) \/ UnitEnsured(r) \/ AdRefused(r)

AdTreeInit ==
    /\ label = FirstName
    /\ workplace = FirstUnit
    /\ unitEvents = [u \in Ous |-> << >>]
    /\ personEvents = {}
    /\ ous = {PathOf(u) : u \in {v \in Ous : Exists(v)}}
    /\ container = [p \in Staff |-> PathOf(workplace[p])]
    /\ known \in [Replicas -> {{}, ous}]
    /\ doing = [r \in Replicas |-> Free]
    /\ past = ous /\ entangled = FALSE
    /\ left = [changes |-> MaxTreeChanges, faults |-> MaxTreeFaults]

AdTreeNext ==
    \/ \E u \in Ous \ {RootOu} : CreateOu(u) \/ RenameOu(u)
    \/ \E p \in Staff : TransferPerson(p)
    \/ \E r \in Replicas :
         \/ \E p \in Staff : ClaimPerson(r, p)
         \/ \E u \in Ous : ClaimUnit(r, u)
         \/ WorkerStep(r) \/ RequestFails(r)

AdTreeSpec == AdTreeInit /\ [][AdTreeNext]_avars

(* A replica finishes what it has begun, and the queue, which serves the   *)
(* event waiting longest, does not pass one over for ever.                 *)
AdTreeFairness ==
    /\ \A r \in Replicas : WF_avars(WorkerStep(r))
    /\ \A p \in Staff : SF_avars(\E r \in Replicas : ClaimPerson(r, p))
    /\ \A u \in Ous : SF_avars(\E r \in Replicas : ClaimUnit(r, u))

AdTreeFairSpec == AdTreeSpec /\ AdTreeFairness

-----------------------------------------------------------------------------
(* Properties.                                                             *)

Drained(u) == unitEvents[u] = << >>
AllDrained ==
    /\ \A u \in Ous : Drained(u)
    /\ personEvents = {} /\ \A r \in Replicas : doing[r] = Free

Waiting(p) == p \in personEvents \/ Busy("person", p)

(* A person's event is delivered in the end, whatever the replicas         *)
(* remember of containers that have moved since: a connection that failed  *)
(* forgets them.                                                           *)
PeopleReachTheirUnit == \A p \in Staff : Waiting(p) ~> ~Waiting(p)

(* When the queue is empty everyone is in the container of their unit and  *)
(* every unit has its container, if the tree changed one step at a time,   *)
(* never giving a path a second time.                                      *)
EveryoneIsHome ==
    AllDrained /\ ~entangled =>
        /\ \A p \in Staff : container[p] = PathOf(workplace[p])
        /\ \A u \in Ous : Exists(u) => PathOf(u) \in ous

(* The same without the condition.  Refuted: of two renames, parent and    *)
(* child, queued together, whichever is delivered first makes the other's  *)
(* old path or new path wrong.                                             *)
EveryoneIsAlwaysHome ==
    AllDrained => \A p \in Staff : container[p] = PathOf(workplace[p])

(* active-directory.connector.ts:857 "RENAME: one move of one node, not a  *)
(* create-and-abandon."                                                    *)
NothingIsAbandoned ==
    AllDrained => ous = {PathOf(u) : u \in {v \in Ous : Exists(v)}}

(* A rename ends up delivered.                                             *)
RenamesAreDelivered == \A u \in Ous : ~Drained(u) ~> Drained(u)
=============================================================================
