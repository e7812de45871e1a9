-------------------------------- MODULE Realms --------------------------------
(***************************************************************************)
(* An organization and the Keycloak realm that is created for it: its row, *)
(* the events that provision, suspend and activate it, the people who wait *)
(* for it, and the access token each worker process keeps for it.  A token *)
(* minted before the realm existed carries no role in it: what it is used  *)
(* for is answered 403, and only a 401 makes the client mint another.      *)
(***************************************************************************)
EXTENDS Integers, Sequences

CONSTANTS
    Folk,        \* people of the organization
    Processes,   \* worker processes, each with a client of its own
    MaxOrgEvents, MaxRealmAttempts, MaxRealmFaults, MaxRevivals   \* bounds

ASSUME RealmsAssumption ==
    {MaxOrgEvents, MaxRealmAttempts, MaxRealmFaults, MaxRevivals} \subseteq Nat

VARIABLES
    org,       \* the row of organizations
    orgEvent,  \* its outbox events, eldest first
    realm,     \* what Keycloak has
    bearer,     \* each process's cached token: none, early or late
    arrival,   \* the event and the account of each person
    errand,    \* what each process is delivering
    hardship   \* faults and revivals left

rvars == <<org, orgEvent, realm, bearer, arrival, errand, hardship>>

NoErrand == [step |-> "idle"]
Fresh == [state |-> "pending", attempts |-> 0]

-----------------------------------------------------------------------------
(* Operators.                                                              *)
OrgQueued == orgEvent' = Append(orgEvent, Fresh)

(* The row, its root unit, its connector target and its event, together.   *)
CreateOrganization ==
    /\ ~org.exists
    /\ org' = [org EXCEPT !.exists = TRUE]
    /\ OrgQueued
    /\ UNCHANGED <<realm, bearer, arrival, errand, hardship>>

SetStatus ==
    /\ org.exists /\ Len(orgEvent) < MaxOrgEvents
    /\ org' = [org EXCEPT !.active = ~@]
    /\ OrgQueued
    /\ UNCHANGED <<realm, bearer, arrival, errand, hardship>>

AddPerson(u) ==
    /\ org.exists /\ arrival[u].state = "absent"
    /\ arrival' = [arrival EXCEPT ![u].state = "pending"]
    /\ UNCHANGED <<org, orgEvent, realm, bearer, errand, hardship>>

ReviveOrg(i) ==
    /\ orgEvent[i].state = "failed" /\ hardship.revivals > 0
    /\ orgEvent' = [orgEvent EXCEPT ![i] = Fresh]
    /\ hardship' = [hardship EXCEPT !.revivals = @ - 1]
    /\ UNCHANGED <<org, realm, bearer, arrival, errand>>

-----------------------------------------------------------------------------
(* The client.  getToken mints when nothing is cached.                     *)
Minted == IF realm.exists THEN "late" ELSE "early"
TokenOf(p) == IF bearer[p] = "none" THEN Minted ELSE bearer[p]
Administers(p) == TokenOf(p) = "late"
Uses(p) == bearer' = [bearer EXCEPT ![p] = TokenOf(p)]

TokenExpires(p) ==
    /\ bearer[p] # "none"
    /\ bearer' = [bearer EXCEPT ![p] = "none"]
    /\ UNCHANGED <<org, orgEvent, realm, arrival, errand, hardship>>

-----------------------------------------------------------------------------
(* One failed attempt of what p delivers.                                  *)
Spent(e) == [e EXCEPT !.attempts = @ + 1,
                      !.state = IF @ = "pending" /\ e.attempts + 1 < MaxRealmAttempts
                                THEN "pending" ELSE "failed"]

Fails(p) ==
    /\ IF errand[p].step = "apply"
       THEN /\ arrival' = [arrival EXCEPT ![errand[p].person] = Spent(@)]
            /\ UNCHANGED orgEvent
       ELSE /\ orgEvent' = [orgEvent EXCEPT ![errand[p].event] = Spent(@)]
            /\ UNCHANGED arrival
    /\ errand' = [errand EXCEPT ![p] = NoErrand]

Moves(p, to) ==
    /\ errand' = [errand EXCEPT ![p].step = to]
    /\ UNCHANGED <<orgEvent, arrival>>

(* reconcileOrganization reads the row once.                               *)
ClaimOrg(p, i) ==
    /\ errand[p] = NoErrand /\ orgEvent[i].state = "pending"
    /\ \A j \in 1..(i - 1) : orgEvent[j].state # "pending"
    /\ \A q \in Processes : errand[q].step \notin {"idle", "apply"} => errand[q].event # i
    /\ errand' = [errand EXCEPT ![p] = [step |-> "post", event |-> i, active |-> org.active]]
    /\ UNCHANGED <<org, orgEvent, realm, bearer, arrival, hardship>>

(* Mutant of PostRealm: the token that made the realm stays in the cache.  *)
PostRealmOnly(p) ==
    /\ errand[p].step = "post"
    /\ Uses(p)
    /\ realm' = IF realm.exists THEN realm ELSE [exists |-> TRUE, enabled |-> TRUE]
    /\ Moves(p, IF realm.exists THEN "probe" ELSE "enable")
    /\ UNCHANGED <<org, hardship>>

(* ensureRealm: the token that made a realm is thrown away; a realm that   *)
(* is there already (409) is probed.                                       *)
PostRealm(p) ==
    /\ errand[p].step = "post"
    /\ IF realm.exists
       THEN /\ Uses(p)
            /\ Moves(p, "probe")
            /\ UNCHANGED realm
       ELSE /\ realm' = [exists |-> TRUE, enabled |-> TRUE]
            /\ bearer' = [bearer EXCEPT ![p] = "none"]
            /\ Moves(p, "enable")
    /\ UNCHANGED <<org, hardship>>

(* The realm is made and the answer is lost: the token stays.              *)
PostIsLost(p) ==
    /\ errand[p].step = "post" /\ ~realm.exists /\ hardship.faults > 0
    /\ realm' = [exists |-> TRUE, enabled |-> TRUE]
    /\ bearer' = [bearer EXCEPT ![p] = TokenOf(p)]
    /\ Fails(p)
    /\ hardship' = [hardship EXCEPT !.faults = @ - 1]
    /\ UNCHANGED org

Probe(p) ==
    /\ errand[p].step = "probe"
    /\ Uses(p)
    /\ IF Administers(p) THEN Moves(p, "enable") ELSE Fails(p)
    /\ UNCHANGED <<org, realm, hardship>>

SetRealmEnabled(p) ==
    /\ errand[p].step = "enable"
    /\ Uses(p)
    /\ IF Administers(p)
       THEN realm' = [realm EXCEPT !.enabled = errand[p].active] /\ Moves(p, "commit")
       ELSE Fails(p) /\ UNCHANGED realm
    /\ UNCHANGED <<org, hardship>>

(* Mutant of CommitOrg: a suspended organization is not marked.            *)
CommitOrgWhenActive(p) ==
    /\ errand[p].step = "commit"
    /\ org' = [org EXCEPT !.provisioned = @ \/ errand[p].active]
    /\ bearer' = IF errand[p].active THEN bearer ELSE [bearer EXCEPT ![p] = "none"]
    /\ orgEvent' = [orgEvent EXCEPT ![errand[p].event].state = "done"]
    /\ errand' = [errand EXCEPT ![p] = NoErrand]
    /\ UNCHANGED <<realm, arrival, hardship>>

(* The client of a suspended realm is evicted; the realm is provisioned.   *)
CommitOrg(p) ==
    /\ errand[p].step = "commit"
    /\ org' = [org EXCEPT !.provisioned = TRUE]
    /\ bearer' = IF errand[p].active THEN bearer ELSE [bearer EXCEPT ![p] = "none"]
    /\ orgEvent' = [orgEvent EXCEPT ![errand[p].event].state = "done"]
    /\ errand' = [errand EXCEPT ![p] = NoErrand]
    /\ UNCHANGED <<realm, arrival, hardship>>

(* Until the realm is provisioned a claim is deferred at no cost, which    *)
(* changes nothing here.                                                   *)
ClaimArrival(p, u) ==
    /\ errand[p] = NoErrand /\ arrival[u].state = "pending" /\ org.provisioned
    /\ \A q \in Processes : errand[q].step = "apply" => errand[q].person # u
    /\ errand' = [errand EXCEPT ![p] = [step |-> "apply", person |-> u]]
    /\ UNCHANGED <<org, orgEvent, realm, bearer, arrival, hardship>>

ApplyPerson(p) ==
    /\ errand[p].step = "apply"
    /\ Uses(p)
    /\ IF Administers(p)
       THEN /\ arrival' = [arrival EXCEPT ![errand[p].person] =
                              [@ EXCEPT !.state = "done", !.account = TRUE]]
            /\ errand' = [errand EXCEPT ![p] = NoErrand]
            /\ UNCHANGED orgEvent
       ELSE Fails(p)
    /\ UNCHANGED <<org, realm, hardship>>

(* A call that does not reach Keycloak, after the token was minted.        *)
CallFails(p) ==
    /\ errand[p].step \in {"post", "probe", "enable", "apply"} /\ hardship.faults > 0
    /\ Uses(p)
    /\ Fails(p)
    /\ hardship' = [hardship EXCEPT !.faults = @ - 1]
    /\ UNCHANGED <<org, realm>>

ProcessDies(p) ==
    /\ hardship.faults > 0 /\ errand[p] # NoErrand
    /\ errand' = [errand EXCEPT ![p] = NoErrand]
    /\ bearer' = [bearer EXCEPT ![p] = "none"]
    /\ hardship' = [hardship EXCEPT !.faults = @ - 1]
    /\ UNCHANGED <<org, orgEvent, realm, arrival>>

-----------------------------------------------------------------------------
RealmsInit ==
    /\ org = [exists |-> FALSE, active |-> TRUE, provisioned |-> FALSE]
    /\ orgEvent = << >>
    /\ realm = [exists |-> FALSE, enabled |-> FALSE]
    /\ bearer = [p \in Processes |-> "none"]
    /\ arrival = [u \in Folk |-> [state |-> "absent", attempts |-> 0, account |-> FALSE]]
    /\ errand = [p \in Processes |-> NoErrand]
    /\ hardship = [faults |-> MaxRealmFaults, revivals |-> MaxRevivals]

DeliversOrg(p) ==
    \/ \E i \in 1..Len(orgEvent) : ClaimOrg(p, i)
    \/ PostRealm(p) \/ Probe(p) \/ SetRealmEnabled(p) \/ CommitOrg(p)

DeliversPerson(p) == (\E u \in Folk : ClaimArrival(p, u)) \/ ApplyPerson(p)

RealmsNext ==
    \/ CreateOrganization \/ SetStatus
    \/ \E u \in Folk : AddPerson(u)
    \/ \E i \in 1..Len(orgEvent) : ReviveOrg(i)
    \/ \E p \in Processes :
          \/ DeliversOrg(p) \/ DeliversPerson(p) \/ TokenExpires(p)
          \/ PostIsLost(p) \/ CallFails(p) \/ ProcessDies(p)

RealmsSpec == RealmsInit /\ [][RealmsNext]_rvars

(* A worker drains what is due; nothing is assumed of operators, tokens    *)
(* and faults.                                                             *)
RealmsFairness ==
    \A p \in Processes : WF_rvars(DeliversOrg(p)) /\ WF_rvars(DeliversPerson(p))

RealmsFairSpec == RealmsSpec /\ RealmsFairness

-----------------------------------------------------------------------------
(* A realm that is open while its organization is suspended, or shut while *)
(* it is active, is owed a delivery, or has a dead letter that says so:    *)
(* whatever order suspensions, revived events and lost answers come in.    *)
SuspendedIsShutOrOwed ==
    realm.exists /\ realm.enabled # org.active =>
        \E i \in 1..Len(orgEvent) : orgEvent[i].state # "done"

(* Without a fault no attempt fails: no process uses a token that was      *)
(* minted too early for the realm, neither on the organization's own calls *)
(* nor on the people that waited for it.                                   *)
QuietProvisioningNeverFails ==
    hardship.faults = MaxRealmFaults =>
        /\ \A i \in 1..Len(orgEvent) : orgEvent[i].attempts = 0
        /\ \A u \in Folk : arrival[u].attempts = 0

(* Everybody who was added gets an account, or there is a dead letter,     *)
(* their own or the organization's: suspended or not, the realm made by    *)
(* this attempt, by one whose answer was lost, or by a process that died.  *)
PeopleArrive ==
    \A u \in Folk : arrival[u].state = "pending" ~>
        \/ arrival[u].account \/ arrival[u].state = "failed"
        \/ \E i \in 1..Len(orgEvent) : orgEvent[i].state = "failed"

(* An attempt fails for a fault of its own.  The code breaks it: after a   *)
(* lost answer, or a call that failed once its token was minted, a process *)
(* goes on with the early token and is refused until it expires.           *)
OneFaultOneAttempt ==
    \A i \in 1..Len(orgEvent) : orgEvent[i].attempts + hardship.faults <= MaxRealmFaults
=============================================================================
